---- MODULE Spec2Model ----
(***************************************************************************)
(* Ingestion core of crypto-repos: the persistent rate limiter            *)
(* (src/lib/github/rate-limiter.ts) and the batch upsert writer            *)
(* (src/lib/github/repository-service.ts).                                 *)
(*                                                                         *)
(* Time is in milliseconds.  JavaScript runs one callback at a time, so a  *)
(* step of the model is the code that runs between two suspension points   *)
(* that wait for a timer or for I/O.                                       *)
(***************************************************************************)
EXTENDS Integers, Sequences, FiniteSets, TLC

\* ---------------------------------------------------------------------
\* Program constants of RateLimiter (rate-limiter.ts:38-48)
\* ---------------------------------------------------------------------
MAX_RETRIES == 3
RETRY_DELAY == 5000
REQUEST_TIMEOUT == 30000
BASE_DELAY == 1000
MAX_DELAY == 5000
BURST_SIZE == 10
BURST_DELAY == 10000
HOURLY_LIMIT == 4500
\* period of the hourly reset timer (rate-limiter.ts:89)
HOUR == 3600000
\* tokens of the default state (rate-limiter.ts:135)
DEFAULT_TOKENS == 5000

\* ---------------------------------------------------------------------
\* Bounds of the limiter model
\* ---------------------------------------------------------------------
\* number of acquire() calls in a run
MaxReq == 3
\* the clock stops advancing here
MaxTime == 36000
\* number of steps of a run in which saveState() fails
MaxSaveFail == 2
\* number of updateLimits() calls in a run
MaxUpdates == 2
\* the reset time of a window that ends before the clock stops
ResetAt == 20000
\* admissions in the run of admissions the ceiling is checked on, minus one
CeilingRun == 1

VARIABLES
  now,         \* Date.now()
  queue,       \* RateLimiter.queue: the queued items, as request ids
  processing,  \* RateLimiter.processing
  loops,       \* processQueue invocations between `this.processing = true` and `finally`
  req,         \* per acquire() call: its QueueItem and how its promise settled
  nextReq,     \* id of the next acquire() call
  stateFile,   \* content of cache/rate-limiter-state.json
  dPc,         \* position of processQueue: idle, top, for, emergency
  dWake,       \* time at which the setTimeout processQueue awaits is due
  dState,      \* the local `state` of processQueue (loaded at the loop top)
  burstLeft,   \* currentBurst - i of the for loop
  ul,          \* the updateLimits call between its loadState and saveState
  hourlyDue,   \* next firing of the hourly setInterval
  saveFails,   \* steps in which saveState() failed so far
  updates,     \* updateLimits() calls so far
  lastUL,      \* `remaining` of the latest updateLimits call, -1 if none
  admitLog,    \* ids of the requests admitted, in the order of admission
  admitTimes   \* times of the latest CeilingRun + 1 admissions

limVars == <<now, queue, processing, loops, req, nextReq, stateFile, dPc, dWake, dState,
             burstLeft, ul, hourlyDue, saveFails, updates, lastUL, admitLog, admitTimes>>

\* RepositoryService and the store behind it
VARIABLES
  batch,            \* RepositoryService.batch
  processedRepos,   \* RepositoryService.processedRepos (full names)
  svcProcessing,    \* RepositoryService.processing
  lastProcessTime,  \* RepositoryService.lastProcessTime
  repositories,     \* rows of table repositories
  repository_topics,\* rows of table repository_topics
  proc,             \* the processBatch invocations and where each one stands
  immediates,       \* setImmediate callbacks scheduled and not yet run
  attempts,         \* per snapshot taken: who took it, its records, how it ended
  accepted,         \* records that queueRepository pushed on the batch in this run
  calls,            \* queueRepository and flush calls so far
  faults,           \* failures of the store, the limiter and the process so far
  script,           \* the calls a sequential caller makes, in order
  ip                \* index in script of the caller's next call

wrVars == <<batch, processedRepos, svcProcessing, lastProcessTime, repositories,
            repository_topics, proc, immediates, attempts, accepted, calls, faults>>

\* saveState step by step, and the process around it
VARIABLES
  backupFile,  \* cache/rate-limiter-state.json.bak: <<>> while there is none
  save         \* the saveState call under way, the latest state written in
               \* full, and what the first loadState after a restart returned

saveVars == <<backupFile, save>>

\* the fetch clients and the ingestion run that calls them
VARIABLES
  token,   \* process.env.GITHUB_TOKEN is set
  cache,   \* the response cache: per cache file its mtime and whether it parses
  fetch,   \* the fetchRepository / fetchRepositoryContributors calls under way
  fcalls,  \* fetch calls so far
  run      \* importEcosystemReposDirectly: its position, its workers, its stats

cliVars == <<token, cache, fetch, fcalls>>
drvVars == <<script, ip, cliVars, run>>

\* the source reader and the database operation queue
VARIABLES
  reader,  \* parseEcosystemFile: the file, the lines read, the urls so far
  dbq,     \* DatabaseQueue: its fields and the operations it has started
  calc     \* two calculateDelay calls on one state: their inputs and results

toolVars == <<reader, dbq, calc>>

\* what the limiter's own steps leave alone, and what the writer's do
notLimiter == <<wrVars, drvVars, saveVars, toolVars>>
limRest == <<queue, processing, loops, req, nextReq, dPc, dWake, dState, burstLeft, ul,
             hourlyDue, saveFails, updates, lastUL, admitLog, admitTimes>>
limOwn == <<stateFile, limRest, saveVars, toolVars>>
\* what the steps of a fetch leave alone
notClient == <<limRest, saveVars, wrVars, script, ip, run, toolVars>>

vars == <<limVars, wrVars, drvVars, saveVars, toolVars>>

Min(a, b) == IF a < b THEN a ELSE b
Max(a, b) == IF a > b THEN a ELSE b
\* Math.ceil(a / b) for a >= 0, b > 0
CeilDiv(a, b) == (a + b - 1) \div b

ReqIds == 1..MaxReq

\* ---------------------------------------------------------------------
\* RateLimiterState.  lastStatusLog and the timestamps inside lastError and
\* failedPromises only feed log lines; they are left out.  `valid` is
\* isValidState of the parsed file (FALSE also when it does not parse).
\* ---------------------------------------------------------------------
getDefaultState(t) ==
  [valid |-> TRUE, tokens |-> DEFAULT_TOKENS, resetTime |-> t + HOUR,
   total |-> 0, lastReq |-> 0, lastError |-> FALSE, failed |-> 0]

CorruptFile ==
  [valid |-> FALSE, tokens |-> 0, resetTime |-> 0,
   total |-> 0, lastReq |-> 0, lastError |-> FALSE, failed |-> 0]

\* loadState that hands out whatever the file holds
loadStateUnchecked(f, t) == f
\* loadState (rate-limiter.ts:103-120)
loadState(f, t) == IF f.valid THEN f ELSE getDefaultState(t)

\* Math.min(BURST_SIZE, queue.length, Math.ceil((tokens / 100) * BURST_SIZE))
currentBurst(st, qlen) ==
  Min(BURST_SIZE, Min(qlen, CeilDiv(st.tokens * BURST_SIZE, 100)))

\* Math.min(BURST_DELAY * (queue.length / 100), BURST_DELAY * 2)
burstDelay(qlen) == Min((BURST_DELAY * qlen) \div 100, BURST_DELAY * 2)

\* calculateDelay with the delay taken for seconds: setTimeout then sleeps
\* a thousandth of the intended time
calculateDelaySeconds(st, t) ==
  LET d1 == IF st.total * 10 > 8 * HOURLY_LIMIT THEN (BASE_DELAY * 3) \div 2 ELSE BASE_DELAY
      d2 == IF st.total * 10 > 9 * HOURLY_LIMIT THEN d1 * 2 ELSE d1
      d3 == IF st.total * 100 > 95 * HOURLY_LIMIT THEN MAX_DELAY ELSE d2
  IN  Max(d3, BASE_DELAY - (t - st.lastReq)) \div 1000

calculateDelay(st, t) ==
  LET d1 == IF st.total * 10 > 8 * HOURLY_LIMIT THEN (BASE_DELAY * 3) \div 2 ELSE BASE_DELAY
      d2 == IF st.total * 10 > 9 * HOURLY_LIMIT THEN d1 * 2 ELSE d1
      d3 == IF st.total * 100 > 95 * HOURLY_LIMIT THEN MAX_DELAY ELSE d2
  IN  Max(d3, BASE_DELAY - (t - st.lastReq))

\* value of processQueue's local `state` while no loop runs
NoState == CorruptFile
NoUpdate == [active |-> FALSE, st |-> NoState, rem |-> 0, rs |-> 0]
NewReq == [st |-> "new", due |-> 0, armed |-> FALSE, retry |-> 0, gate |-> FALSE]

\* inputs of updateLimits: x-ratelimit-remaining, x-ratelimit-reset (epoch s)
RemainingVals == {0, 15}
ResetVals == {3600}
\* states a previous run may have left in the state file: tokens,
\* totalRequestsThisHour and the time left until resetTime, which is the
\* end of the API's window, an hour at most after the latest response
InitFiles ==
  {[valid |-> TRUE, tokens |-> x[1], resetTime |-> x[3], total |-> x[2],
    lastReq |-> 0, lastError |-> FALSE, failed |-> 0] :
      x \in {<<DEFAULT_TOKENS, 0, HOUR>>, <<7, 3600, 20000>>, <<0, 4275, HOUR>>}}
  \cup {CorruptFile}
\* time left until the hourly timer fires
HourlyOffsets == {12000}

InQueue(r) == \E i \in 1..Len(queue) : queue[i] = r
\* a splice that removes nothing
spliceNothing(q, r) == q
\* queue.splice(index, 1)
spliceItem(q, r) == SelectSeq(q, LAMBDA x : x # r)
\* queue.pop() in place of queue.shift(): the latest item is served first
popItem(q) == q[Len(q)]
\* queue.shift() returns the head
shiftItem(q) == Head(q)
\* queue.push(item) of the retry path
requeueItem(q, r) == Append(q, r)

\* the latest CeilingRun + 1 entries of a sequence of times
LastTimes(ts) ==
  IF Len(ts) > CeilingRun + 1 THEN SubSeq(ts, Len(ts) - CeilingRun, Len(ts)) ELSE ts

\* state.failedPromises.count++ of updateFailedPromises
updateFailedPromises(f, t) == [loadState(f, t) EXCEPT !.failed = @ + 1]

\* updateLimits resumes after its `await this.loadState()` in the microtask
\* queue: before any timer callback and before any continuation scheduled
\* later.  Only the code that follows the call synchronously (an acquire, as
\* in parser.ts:349-352) runs in between.
NoMicrotask == ~ul.active

\* a request's timeout timer is due: it was armed before any sleep of the
\* drain loop that is due at the same instant, so it runs first
TimerDue == \E r \in ReqIds : req[r].armed /\ req[r].due <= now

\* the finally block of processQueue (rate-limiter.ts:396-398), n counting
\* the invocations under way, this one included
LoopFinally(n) ==
  /\ processing' = FALSE /\ dPc' = "idle" /\ dWake' = 0
  /\ dState' = NoState /\ burstLeft' = 0
  /\ loops' = n - 1
LoopIdle == LoopFinally(loops)

\* processQueue from the test of its while loop to the next suspension,
\* with q the queue and f the state file at that point
LoopTop(q, f, n) ==
  IF Len(q) = 0 THEN LoopFinally(n)
  ELSE LET st == loadState(f, now)
           burst == currentBurst(st, Len(q))
       IN  /\ processing' = TRUE
           /\ loops' = n
           /\ dState' = st
           /\ IF burst = 0
              THEN dPc' = "top" /\ dWake' = now + MAX_DELAY /\ burstLeft' = 0
              ELSE dPc' = "for" /\ dWake' = now /\ burstLeft' = burst

\* the test that no drain loop is running (rate-limiter.ts:205, 228, 281),
\* after a variant that always finds none
seesIdleAlways(flag) == TRUE
seesIdle(flag) == ~flag

\* processQueue() from its guard to its first suspension
\* (rate-limiter.ts:279-302), with q the queue and f the state file
processQueue(q, f) ==
  IF seesIdle(processing) THEN LoopTop(q, f, loops + 1)
  ELSE UNCHANGED <<processing, loops, dPc, dWake, dState, burstLeft>>

\* acquire(key): the executor of the new promise
Acquire ==
  /\ nextReq <= MaxReq
  /\ req' = [req EXCEPT ![nextReq] =
               [NewReq EXCEPT !.st = "queued",
                              !.due = now + REQUEST_TIMEOUT, !.armed = TRUE,
                              !.gate = (lastUL = 0)]]
  /\ queue' = Append(queue, nextReq)
  /\ nextReq' = nextReq + 1
  /\ IF seesIdle(processing) THEN processQueue(Append(queue, nextReq), stateFile)
     ELSE UNCHANGED <<processing, loops, dPc, dWake, dState, burstLeft>>
  /\ UNCHANGED <<now, stateFile, ul, hourlyDue, saveFails, updates, lastUL, admitLog, admitTimes>>
  /\ UNCHANGED notLimiter

\* handleTimeout(item), ok: the saveState of updateFailedPromises succeeds
Timeout(r, ok) ==
  /\ NoMicrotask
  /\ req[r].armed /\ req[r].due <= now
  /\ IF InQueue(r)
     THEN /\ ok \/ saveFails < MaxSaveFail
          /\ queue' = spliceItem(queue, r)
          /\ req' = [req EXCEPT ![r].st = "timedout", ![r].armed = FALSE]
          /\ stateFile' = IF ok THEN updateFailedPromises(stateFile, now) ELSE stateFile
          /\ saveFails' = IF ok THEN saveFails ELSE saveFails + 1
     ELSE /\ ok
          /\ req' = [req EXCEPT ![r].armed = FALSE]
          /\ UNCHANGED <<queue, stateFile, saveFails>>
  /\ UNCHANGED <<now, processing, loops, nextReq, dPc, dWake, dState, burstLeft, ul,
                 hourlyDue, updates, lastUL, admitLog, admitTimes>>
  /\ UNCHANGED notLimiter

\* the while test of processQueue after a pause or a burst delay
DrainTop ==
  /\ dPc = "top" /\ dWake <= now /\ ~TimerDue /\ NoMicrotask
  /\ LoopTop(queue, stateFile, loops)
  /\ UNCHANGED <<now, queue, req, nextReq, stateFile, ul, hourlyDue, saveFails,
                 updates, lastUL, admitLog, admitTimes>>
  /\ UNCHANGED notLimiter

\* one pass of the for loop whose saveState succeeds: the item is admitted
\* (rate-limiter.ts:309-333)
DrainAdmit ==
  /\ dPc = "for" /\ burstLeft > 0 /\ dWake <= now /\ ~TimerDue /\ NoMicrotask
  /\ queue # <<>>
  /\ LET item == shiftItem(queue)
         st1 == [dState EXCEPT !.total = @ + 1, !.lastReq = now]
     IN  /\ queue' = spliceItem(queue, item)
         /\ req' = [req EXCEPT ![item].st = "admitted", ![item].armed = FALSE]
         /\ admitLog' = Append(admitLog, item)
         /\ admitTimes' = LastTimes(Append(admitTimes, now))
         /\ stateFile' = st1
         /\ dState' = st1
         /\ dWake' = now + calculateDelay(loadState(st1, now), now)
  /\ burstLeft' = burstLeft - 1
  /\ UNCHANGED <<now, processing, loops, nextReq, dPc, ul, hourlyDue, saveFails,
                 updates, lastUL>>
  /\ UNCHANGED notLimiter

\* one pass of the for loop whose saveState throws (rate-limiter.ts:334-361).
\* nfail is the number of consecutive saveState calls that fail: the one of
\* the try block, then the one of the retry branch or of
\* updateFailedPromises, then the one of the outer catch (line 385).
DrainItemError(nfail) ==
  /\ dPc = "for" /\ burstLeft > 0 /\ dWake <= now /\ ~TimerDue /\ NoMicrotask
  /\ queue # <<>>
  /\ saveFails < MaxSaveFail
  /\ saveFails' = saveFails + 1
  /\ LET item == shiftItem(queue)
         q1 == spliceItem(queue, item)
         st1 == [dState EXCEPT !.total = @ + 1, !.lastReq = now]
         st2 == [st1 EXCEPT !.lastError = TRUE]
         canRetry == req[item].retry < MAX_RETRIES
     IN  /\ IF canRetry
            THEN /\ req' = [req EXCEPT ![item].retry = @ + 1, ![item].armed = FALSE]
                 /\ queue' = requeueItem(q1, item)
            ELSE /\ req' = [req EXCEPT ![item].st = "rejected", ![item].armed = FALSE]
                 /\ queue' = q1
         /\ CASE nfail = 1 ->
                   /\ stateFile' = IF canRetry THEN st2
                                   ELSE updateFailedPromises(stateFile, now)
                   /\ dState' = IF canRetry THEN st2 ELSE st1
                   /\ dWake' = IF canRetry THEN now + RETRY_DELAY ELSE now
                   /\ burstLeft' = burstLeft - 1
                   /\ UNCHANGED <<processing, loops, dPc>>
              [] nfail = 2 ->
                   /\ stateFile' = [loadState(stateFile, now) EXCEPT !.lastError = TRUE]
                   /\ dPc' = "emergency" /\ dWake' = now
                   /\ dState' = NoState /\ burstLeft' = 0
                   /\ UNCHANGED <<processing, loops>>
              [] OTHER ->
                   /\ LoopIdle
                   /\ UNCHANGED stateFile
  /\ UNCHANGED <<now, nextReq, ul, hourlyDue, updates, lastUL, admitLog, admitTimes>>
  /\ UNCHANGED notLimiter

\* a pass of the for loop that finds the queue empty: `if (item)` is false
DrainSkip ==
  /\ dPc = "for" /\ burstLeft > 0 /\ dWake <= now /\ ~TimerDue /\ NoMicrotask
  /\ queue = <<>>
  /\ burstLeft' = burstLeft - 1
  /\ UNCHANGED <<now, queue, processing, loops, req, nextReq, stateFile, dPc, dWake,
                 dState, ul, hourlyDue, saveFails, updates, lastUL, admitLog, admitTimes>>
  /\ UNCHANGED notLimiter

\* after the for loop (rate-limiter.ts:365-375)
DrainBurstEnd ==
  /\ dPc = "for" /\ burstLeft = 0 /\ dWake <= now /\ ~TimerDue /\ NoMicrotask
  /\ IF queue # <<>>
     THEN /\ dPc' = "top" /\ dWake' = now + burstDelay(Len(queue))
          /\ UNCHANGED <<processing, loops, dState, burstLeft>>
     ELSE LoopIdle
  /\ UNCHANGED <<now, queue, req, nextReq, stateFile, ul, hourlyDue, saveFails,
                 updates, lastUL, admitLog, admitTimes>>
  /\ UNCHANGED notLimiter

\* the emergency loop of the outer catch (rate-limiter.ts:387-398); ok: the
\* saveState of updateFailedPromises succeeds
DrainEmergency(ok) ==
  /\ dPc = "emergency" /\ NoMicrotask
  /\ IF queue = <<>>
     THEN /\ ok
          /\ LoopIdle
          /\ UNCHANGED <<queue, req, stateFile, saveFails>>
     ELSE LET item == shiftItem(queue)
          IN  /\ ok \/ saveFails < MaxSaveFail
              /\ queue' = spliceItem(queue, item)
              /\ req' = [req EXCEPT ![item].st = "rejected"]
              /\ IF ok
                 THEN /\ stateFile' = updateFailedPromises(stateFile, now)
                      /\ UNCHANGED <<saveFails, processing, loops, dPc, dWake, dState, burstLeft>>
                 ELSE /\ saveFails' = saveFails + 1
                      /\ LoopIdle
                      /\ UNCHANGED stateFile
  /\ UNCHANGED <<now, nextReq, ul, hourlyDue, updates, lastUL, admitLog, admitTimes>>
  /\ UNCHANGED notLimiter

\* updateLimits(remaining, resetTime) up to its `await this.loadState()`:
\* loadState reads the file before it returns
UpdateLimitsCall(rem, rs) ==
  /\ ~ul.active /\ updates < MaxUpdates
  /\ ul' = [active |-> TRUE, st |-> loadState(stateFile, now), rem |-> rem, rs |-> rs]
  /\ updates' = updates + 1
  /\ lastUL' = rem
  /\ req' = IF rem > 0 THEN [r \in ReqIds |-> [req[r] EXCEPT !.gate = FALSE]] ELSE req
  /\ UNCHANGED <<now, queue, processing, loops, nextReq, stateFile, dPc, dWake, dState,
                 burstLeft, hourlyDue, saveFails, admitLog, admitTimes>>
  /\ UNCHANGED notLimiter

\* the rest of updateLimits (rate-limiter.ts:179-207); ok: saveState succeeds
UpdateLimitsSave(ok) ==
  /\ ul.active
  /\ ok \/ saveFails < MaxSaveFail
  /\ LET st == [ul.st EXCEPT !.tokens = ul.rem, !.resetTime = ul.rs * 1000]
         f == IF ok THEN st ELSE stateFile
     IN  /\ stateFile' = f
         /\ IF ul.rem > 0 /\ seesIdle(processing) THEN processQueue(queue, f)
            ELSE UNCHANGED <<processing, loops, dPc, dWake, dState, burstLeft>>
  /\ saveFails' = IF ok THEN saveFails ELSE saveFails + 1
  /\ ul' = NoUpdate
  /\ UNCHANGED <<now, queue, req, nextReq, hourlyDue, updates, lastUL, admitLog, admitTimes>>
  /\ UNCHANGED notLimiter

\* the hourly setInterval callback (rate-limiter.ts:74-89)
HourlyReset(ok) ==
  /\ hourlyDue <= now /\ NoMicrotask
  /\ ok \/ saveFails < MaxSaveFail
  /\ stateFile' = IF ok
                  THEN [loadState(stateFile, now) EXCEPT
                          !.total = 0, !.lastError = FALSE, !.failed = 0]
                  ELSE stateFile
  /\ saveFails' = IF ok THEN saveFails ELSE saveFails + 1
  /\ hourlyDue' = hourlyDue + HOUR
  /\ UNCHANGED <<now, queue, processing, loops, req, nextReq, dPc, dWake, dState,
                 burstLeft, ul, updates, lastUL, admitLog, admitTimes>>
  /\ UNCHANGED notLimiter

\* time passes while nothing can run: to the instant the next timer is due
Advance ==
  /\ NoMicrotask /\ ~TimerDue /\ hourlyDue > now
  /\ dPc = "idle" \/ (dPc \in {"top", "for"} /\ dWake > now)
  /\ LET dues == {req[r].due : r \in {x \in ReqIds : req[x].armed}}
                   \cup {hourlyDue}
                   \cup (IF dPc = "idle" THEN {} ELSE {dWake})
         next == CHOOSE d \in dues : \A e \in dues : d <= e
     IN  /\ next <= MaxTime
         /\ now' = next
  /\ UNCHANGED <<queue, processing, loops, req, nextReq, stateFile, dPc, dWake, dState,
                 burstLeft, ul, hourlyDue, saveFails, updates, lastUL, admitLog, admitTimes>>
  /\ UNCHANGED notLimiter

\* the limiter after construction, with state file f and the hourly timer
\* due at h
LimStart(f, h) ==
  /\ queue = <<>>
  /\ processing = FALSE /\ loops = 0
  /\ req = [r \in ReqIds |-> NewReq]
  /\ nextReq = 1
  /\ stateFile = f
  /\ dPc = "idle" /\ dWake = 0 /\ dState = NoState /\ burstLeft = 0
  /\ ul = NoUpdate
  /\ hourlyDue = h
  /\ saveFails = 0 /\ updates = 0 /\ lastUL = -1
  /\ admitLog = <<>> /\ admitTimes = <<>>

LimInit ==
  /\ now = 0
  /\ \E f \in InitFiles, h \in HourlyOffsets : LimStart(f, h)

\* the limiter after two failed admissions of its first request: the
\* retry branch has run twice (rate-limiter.ts:336-351), the second time
\* RETRY_DELAY + burstDelay(1) after the first, and processQueue sleeps
\* RETRY_DELAY; n counts the saveState failures so far
AfterTwoFailures(n) ==
  LET t == RETRY_DELAY + burstDelay(1)
      st == [getDefaultState(0) EXCEPT !.total = 2, !.lastReq = t, !.lastError = TRUE]
  IN  /\ now = t
      /\ queue = <<1>>
      /\ processing = TRUE /\ loops = 1
      /\ req = [r \in ReqIds |->
                  IF r = 1 THEN [NewReq EXCEPT !.st = "queued", !.due = REQUEST_TIMEOUT,
                                               !.retry = 2]
                  ELSE NewReq]
      /\ nextReq = 2
      /\ stateFile = st
      /\ dPc = "for" /\ dWake = t + RETRY_DELAY /\ dState = st /\ burstLeft = 0
      /\ ul = NoUpdate
      /\ hourlyDue \in HourlyOffsets
      /\ saveFails = n /\ updates = 0 /\ lastUL = -1
      /\ admitLog = <<>> /\ admitTimes = <<>>

LimNext ==
  \/ Acquire
  \/ \E r \in ReqIds, ok \in BOOLEAN : Timeout(r, ok)
  \/ DrainTop
  \/ DrainAdmit
  \/ \E nfail \in 1..3 : DrainItemError(nfail)
  \/ DrainSkip
  \/ DrainBurstEnd
  \/ \E ok \in BOOLEAN : DrainEmergency(ok)
  \/ \E rem \in RemainingVals, rs \in ResetVals : UpdateLimitsCall(rem, rs)
  \/ \E ok \in BOOLEAN : UpdateLimitsSave(ok)
  \/ \E ok \in BOOLEAN : HourlyReset(ok)
  \/ Advance


\* ---------------------------------------------------------------------
\* Properties of the rate limiter
\* ---------------------------------------------------------------------

\* C1 (rate-limit ceiling): any CeilingRun + 1 admissions span at least
\* CeilingRun * HOUR / HOURLY_LIMIT ms.  With this for every run length, a
\* window of one hour, which is HOURLY_LIMIT * (HOUR / HOURLY_LIMIT) ms long,
\* never holds HOURLY_LIMIT + 1 admissions.
RateCeiling ==
  Len(admitTimes) = CeilingRun + 1 =>
    admitTimes[Len(admitTimes)] - admitTimes[1] >= CeilingRun * (HOUR \div HOURLY_LIMIT)

\* CeilingRun + 1 admissions were granted back to back, BASE_DELAY apart
RateCeilingWitness ==
  /\ Len(admitTimes) = CeilingRun + 1
  /\ admitTimes[Len(admitTimes)] - admitTimes[1] = CeilingRun * BASE_DELAY

\* C2 as claimed (FIFO admission in every run): requests are admitted in the
\* order of their acquire calls
FifoAdmission ==
  \A i, j \in 1..Len(admitLog) : i < j => admitLog[i] < admitLog[j]

\* C2 amended: a request admitted after one that was enqueued later has been
\* re-queued by the retry path
FifoUnlessRequeued ==
  \A i, j \in 1..Len(admitLog) :
    (i < j /\ admitLog[i] > admitLog[j]) => req[admitLog[j]].retry > 0

\* two requests that the retry path never re-queued were admitted, in the
\* order of their calls
FifoWitness ==
  /\ Len(admitLog) >= 2
  /\ admitLog[1] < admitLog[2]
  /\ req[admitLog[1]].retry = 0 /\ req[admitLog[2]].retry = 0

\* C3 (timeout correctness): no request is still queued after its timeout
\* window has elapsed
TimeoutCorrect ==
  \A r \in ReqIds : req[r].st = "queued" => now <= req[r].due

\* C8 (token exhaustion): a request made after updateLimits(0, future), with
\* no updateLimits(>0) since, is not admitted
ExhaustedNotAdmitted ==
  \A r \in ReqIds : req[r].gate => req[r].st # "admitted"

NoOrphanedRequest ==
  \A r \in ReqIds :
    (InQueue(r) /\ ~req[r].armed) => (processing /\ dPc # "idle")

\* C27 (fail-fast drain): whenever processQueue ends through its outer
\* catch block (from the emergency loop, or from the for loop by a
\* saveState failure that the catch block could not record), the queue is
\* empty afterwards and every item that was queued has been rejected
FailFastDrain ==
  [][((dPc = "emergency" \/ (dPc = "for" /\ saveFails' > saveFails)) /\ dPc' = "idle")
       => /\ queue' = <<>>
          /\ \A i \in 1..Len(queue) : req'[queue[i]].st = "rejected"]_vars

\* C28 (bounded per-item retry): retryCount never exceeds MAX_RETRIES; a
\* step that increments the retryCount of an item found it below
\* MAX_RETRIES and leaves the item queued, at the tail; a step of the for
\* loop that rejects an item found its retryCount at MAX_RETRIES and adds
\* one to the persisted failedPromises count
BoundedItemRetry ==
  [][\A r \in ReqIds :
       /\ req'[r].retry <= MAX_RETRIES
       /\ req'[r].retry # req[r].retry =>
            /\ req[r].retry < MAX_RETRIES /\ req'[r].retry = req[r].retry + 1
            /\ req'[r].st = "queued"
            /\ queue' # <<>> /\ queue'[Len(queue')] = r
       /\ (dPc = "for" /\ req[r].st = "queued" /\ req'[r].st = "rejected") =>
            /\ req[r].retry = MAX_RETRIES
            /\ stateFile'.failed = loadState(stateFile, now).failed + 1]_vars

\* C29 (tokens are written by updateLimits only): once the value given to
\* the last updateLimits call is the persisted one and that call is over,
\* no step changes the persisted tokens or resetTime (the next updateLimits
\* call changes them when it saves, not when it is called)
TokensOnlyByUpdateLimits ==
  [][(updates > 0 /\ ~ul.active /\ stateFile.valid /\ stateFile.tokens = lastUL) =>
       /\ stateFile'.valid
       /\ stateFile'.tokens = stateFile.tokens
       /\ stateFile'.resetTime = stateFile.resetTime]_vars

\* the promise of request r has been resolved or rejected
Settled(r) == req[r].st \in {"admitted", "rejected", "timedout"}
\* C32 (an admission request settles at most once): a request that was
\* admitted, rejected or timed out keeps that outcome; after every step the
\* queue holds only requests that are not settled, each once, and no
\* request is in the log of admissions twice
SettlesOnce ==
  [][/\ \A r \in ReqIds : Settled(r) => req'[r].st = req[r].st
     /\ \A i \in 1..Len(queue') : req'[queue'[i]].st = "queued"
     /\ \A i, j \in 1..Len(queue') : i # j => queue'[i] # queue'[j]
     /\ \A i, j \in 1..Len(admitLog') : i # j => admitLog'[i] # admitLog'[j]]_vars
\* a request has timed out, another was admitted on a retry, and a third
\* one waits in the queue
SettlesOnceWitness ==
  /\ \E r \in ReqIds : req[r].st = "timedout"
  /\ \E r \in ReqIds : req[r].st = "admitted" /\ req[r].retry > 0
  /\ queue # <<>>

\* C33 (single drain loop): at most one processQueue invocation is
\* between setting the processing flag and its finally block, and the
\* flag is set exactly while there is one
SingleDrainLoop ==
  /\ loops <= 1
  /\ processing <=> loops = 1
\* the loop is running with two requests queued behind it, after an
\* updateLimits call with remaining > 0 has completed
SingleDrainLoopWitness ==
  /\ loops = 1 /\ dPc # "idle"
  /\ Len(queue) >= 2
  /\ lastUL > 0 /\ ~ul.active

\* C34 (updateLimits reconciles the persisted state): the step that
\* completes updateLimits(remaining, reset) leaves the state file with
\* tokens = remaining and resetTime = reset * 1000, and with the request
\* counter, the failure counter and the last error that a load of the file
\* gave before
UpdateLimitsReconciles ==
  [][(ul.active /\ ~ul'.active) =>
       LET before == loadState(stateFile, now)
       IN  /\ stateFile'.valid
           /\ stateFile'.tokens = ul.rem
           /\ stateFile'.resetTime = ul.rs * 1000
           /\ stateFile'.total = before.total
           /\ stateFile'.failed = before.failed
           /\ stateFile'.lastError = before.lastError]_vars

\* C35 (tokens replenish at the reset time): a pass of the while loop of
\* processQueue that starts at or after the persisted resetTime, with
\* requests queued, does not pause for exhaustion: it enters the for loop
ResumesAfterReset ==
  [][(/\ dPc = "top" /\ queue # <<>>
      /\ stateFile.valid /\ stateFile.resetTime <= now
      /\ dState' # dState \/ dWake' # dWake) => dPc' = "for"]_vars

\* C37 (request counter accuracy): a step that completes the hourly reset
\* leaves the persisted totalRequestsThisHour at 0, and every other step
\* adds to it the number of admissions it grants, one or none
CounterAccuracy ==
  [][LET before == loadState(stateFile, now).total
         after == loadState(stateFile', now').total
     IN  IF hourlyDue' # hourlyDue /\ saveFails' = saveFails THEN after = 0
         ELSE after = before + (Len(admitLog') - Len(admitLog))]_vars

\* C17 (crash recovery): the first loadState after a restart returns the
\* latest state that was written in full
CrashRecovery == save.seen # <<>> => save.seen[1] = save.last

\* C15 (state invariant): the state in the state file has tokens >= 0 and
\* a resetTime strictly later than the current time
StateInvariant ==
  stateFile.valid => (stateFile.tokens >= 0 /\ stateFile.resetTime > now)

\* ---------------------------------------------------------------------
\* RepositoryService (repository-service.ts) and the tables it writes
\* ---------------------------------------------------------------------
BATCH_SIZE == 50
MIN_BATCH_INTERVAL == 5000
\* base and cap of the backoff after a failed batch (repository-service.ts:180)
BACKOFF_BASE == 5000
BACKOFF_MAX == 30000

\* processBatch invocations that can be under way at once
MaxProcs == 2
\* queueRepository and flush calls in a run
MaxCalls == 4
\* failures the environment injects in a run
MaxFaults == 2
\* the clock of a writer run stops advancing here
WriterMaxTime == 15000
\* the repositories with topics have ids 1..MaxId, those without have ids
\* above FillBase
MaxId == 2
FillBase == 100

Procs == 1..MaxProcs
Range(s) == {s[i] : i \in DOMAIN s}

\* A record handed to queueRepository.  ver stands for the values of all its
\* scalar columns, topics for repo.topics.
Rec(i, v, ts) == [id |-> i, full_name |-> i, ver |-> v, topics |-> ts]
Records == {Rec(1, 1, {"a"}), Rec(1, 2, {"b"}), Rec(2, 1, {"a"})}
\* BATCH_SIZE - 1 distinct records without topics
Filler == [i \in 1..(BATCH_SIZE - 1) |-> Rec(FillBase + i, 1, {})]

\* INSERT INTO repositories ... ON CONFLICT (id) DO UPDATE SET ... for one
\* record: upd are the columns of the SET list, fix the other columns, att
\* the snapshot whose transaction wrote the row last
upsertRow(tbl, r, a) ==
  IF \E row \in tbl : row.id = r.id
  THEN {IF row.id = r.id THEN [row EXCEPT !.upd = r.ver, !.att = a] ELSE row :
          row \in tbl}
  ELSE tbl \cup {[id |-> r.id, full_name |-> r.full_name, upd |-> r.ver,
                  fix |-> r.ver, att |-> a]}

\* a variant of upsertAll that writes the first row only
upsertFirst(tbl, s, a) == IF s = <<>> THEN tbl ELSE upsertRow(tbl, Head(s), a)

\* the statement for all the records of s
RECURSIVE upsertAll(_, _, _)
upsertAll(tbl, s, a) ==
  IF s = <<>> THEN tbl ELSE upsertAll(upsertRow(tbl, Head(s), a), Tail(s), a)

\* the statement is refused when two of its rows have the same id, or when a
\* row would repeat the full_name of a row with another id (part_017:21-23)
upsertRefused(tbl, s) ==
  \/ \E i, j \in DOMAIN s : i < j /\ s[i].id = s[j].id
  \/ \E i \in DOMAIN s : \E row \in tbl :
       row.full_name = s[i].full_name /\ row.id # s[i].id

\* DELETE FROM repository_topics WHERE repository_id = $1
deleteTopics(tt, r) == {row \in tt : row.id # r.id}
\* INSERT INTO repository_topics (repository_id, topic) VALUES ...
insertTopics(tt, r, a) ==
  tt \cup {[id |-> r.id, topic |-> t, att |-> a] : t \in r.topics}

RECURSIVE replaceAll(_, _, _)
\* the DELETE and INSERT of every record of s that has topics
replaceAll(tt, s, a) ==
  IF s = <<>> THEN tt
  ELSE replaceAll(IF Head(s).topics # {}
                  THEN insertTopics(deleteTopics(tt, Head(s)), Head(s), a)
                  ELSE tt,
                  Tail(s), a)

\* Math.min(5000 * Math.pow(2, batch.length / BATCH_SIZE), 30000), with the
\* exponent rounded down
RECURSIVE Pow2(_)
Pow2(n) == IF n = 0 THEN 1 ELSE 2 * Pow2(n - 1)
backoffDelay(len) == Min(BACKOFF_BASE * Pow2(len \div BATCH_SIZE), BACKOFF_MAX)

\* a processBatch invocation: pc is where it stands, kind who called it,
\* cur its currentBatch, att the number of its snapshot, wake the time its
\* sleep ends, tasks the topic task of each record of cur that has topics,
\* by the id of the record, client the state
\* of its connection (tx: before its ROLLBACK or COMMIT is executed, auto:
\* after, broken: the ROLLBACK failed), outcome how it returned, atCall the
\* batch at the time of the call, why what made it enter its catch block
NoProc ==
  [pc |-> "free", kind |-> "none", cur |-> <<>>, att |-> 0, wake |-> 0,
   tasks |-> <<>>, client |-> "none", outcome |-> "none", atCall |-> <<>>,
   why |-> "none"]

TaskSettled(t) == t \in {"done", "failed"}
Awaited(p) == proc[p].kind \in {"enqueue", "flush"}
\* Release comes first: it changes nothing the program can see
Quiet ==
  \A p \in Procs :
    ~(proc[p].pc = "returned" /\ \A i \in DOMAIN proc[p].tasks : TaskSettled(proc[p].tasks[i]))
\* p is the invocation record a new call uses
FirstFree(p) == proc[p].pc = "free" /\ \A q \in Procs : q < p => proc[q].pc # "free"

\* processBatch from `this.processing = true` to `await pool.connect()`
\* (repository-service.ts:87-89), entered by the invocation pr with batch b
takeBatch(p, pr, b) ==
  LET n == Min(BATCH_SIZE, Len(b))
      cur == SubSeq(b, 1, n)
  IN  /\ svcProcessing' = TRUE
      /\ batch' = SubSeq(b, n + 1, Len(b))
      /\ attempts' = Append(attempts, [kind |-> pr.kind, snap |-> cur, result |-> "open",
                                         why |-> "none"])
      /\ proc' = [proc EXCEPT ![p] =
                    [pr EXCEPT !.pc = "connect", !.cur = cur, !.client = "tx",
                               !.att = Len(attempts) + 1]]

\* processBatch from its first line to its first suspension
\* (repository-service.ts:76-89), called by `kind` with batch b
processBatch(p, kind, b) ==
  LET pr == [NoProc EXCEPT !.kind = kind,
                           !.atCall = IF kind = "flush" THEN b ELSE <<>>]
  IN  IF svcProcessing \/ b = <<>>
      THEN /\ proc' = [proc EXCEPT ![p] = [pr EXCEPT !.pc = "returned", !.outcome = "noop"]]
           /\ batch' = b
           /\ UNCHANGED <<svcProcessing, attempts>>
      ELSE IF now - lastProcessTime < MIN_BATCH_INTERVAL
      THEN /\ proc' = [proc EXCEPT ![p] =
                         [pr EXCEPT !.pc = "wait",
                                    !.wake = lastProcessTime + MIN_BATCH_INTERVAL]]
           /\ batch' = b
           /\ UNCHANGED <<svcProcessing, attempts>>
      ELSE takeBatch(p, pr, b)

\* the test that a size-triggered flush is due (repository-service.ts:71),
\* after a variant that lets the batch grow to BATCH_SIZE + 1 first
batchOverfull(n) == n > BATCH_SIZE
batchFull(n) == n >= BATCH_SIZE

\* the test of repository-service.ts:59, after a variant that skips nothing
neverProcessed(done, r) == FALSE
alreadyProcessed(done, r) == r.full_name \in done

\* queueRepository(repo, ecosystem, category) (repository-service.ts:54-74)
queueRepository(p, r) ==
  /\ Quiet
  /\ FirstFree(p)
  /\ calls' = calls + 1
  /\ IF alreadyProcessed(processedRepos, r)
     THEN UNCHANGED <<batch, accepted, proc, svcProcessing, attempts>>
     ELSE /\ accepted' = accepted \cup {r}
          /\ IF batchFull(Len(batch) + 1)
             THEN processBatch(p, "enqueue", Append(batch, r))
             ELSE /\ batch' = Append(batch, r)
                  /\ UNCHANGED <<proc, svcProcessing, attempts>>
  /\ UNCHANGED <<now, limOwn, processedRepos, lastProcessTime, repositories,
                 repository_topics, immediates, faults>>

\* flush() (repository-service.ts:221-225)
flush(p) ==
  /\ Quiet
  /\ FirstFree(p)
  /\ calls' = calls + 1
  /\ IF Len(batch) > 0
     THEN processBatch(p, "flush", batch)
     ELSE UNCHANGED <<batch, proc, svcProcessing, attempts>>
  /\ UNCHANGED <<now, limOwn, processedRepos, lastProcessTime, repositories,
                 repository_topics, immediates, accepted, faults>>

\* a caller that does not wait for its earlier calls
Enqueue(p, r) ==
  /\ calls < MaxCalls
  /\ queueRepository(p, r)
  /\ UNCHANGED drvVars

FlushCall(p) ==
  /\ calls < MaxCalls
  /\ flush(p)
  /\ UNCHANGED drvVars

\* a caller that awaits each call before it makes the next one, as
\* import-repos.ts does
ScriptStep(p) ==
  /\ ip <= Len(script)
  /\ \A q \in Procs : Awaited(q) => proc[q].pc = "returned"
  /\ IF script[ip].op = "flush" THEN flush(p) ELSE queueRepository(p, script[ip].rec)
  /\ ip' = ip + 1
  /\ UNCHANGED <<script, cliVars, run>>

\* the callback of setImmediate (repository-service.ts:187)
ImmediateRun(p) ==
  /\ Quiet
  /\ immediates > 0
  /\ FirstFree(p)
  /\ immediates' = immediates - 1
  /\ processBatch(p, "immediate", batch)
  /\ UNCHANGED <<now, limOwn, drvVars, processedRepos, lastProcessTime, repositories,
                 repository_topics, accepted, calls, faults>>

\* the sleep of lines 81-85 ends; nothing is tested again
WaitEnd(p) ==
  /\ Quiet
  /\ proc[p].pc = "wait" /\ proc[p].wake <= now
  /\ takeBatch(p, proc[p], batch)
  /\ UNCHANGED <<now, limOwn, drvVars, processedRepos, lastProcessTime, repositories,
                 repository_topics, immediates, accepted, calls, faults>>

\* the finally block and the return of processBatch
\* (repository-service.ts:182-189), with batch b
finish(p, b, out) ==
  /\ svcProcessing' = FALSE
  /\ immediates' = IF Len(b) >= BATCH_SIZE THEN immediates + 1 ELSE immediates
  /\ proc' = [proc EXCEPT ![p].pc = "returned", ![p].outcome = out]

\* `await pool.connect()` settles (repository-service.ts:89-93).  A
\* rejection leaves processBatch before its try block; when nobody awaits
\* the invocation it is an unhandled rejection, which runs handleError.
Connect(p, ok) ==
  /\ Quiet
  /\ proc[p].pc = "connect"
  /\ IF ok
     THEN /\ proc' = IF proc[p].cur = <<>>
                      THEN [proc EXCEPT ![p].pc = "rollback", ![p].why = "empty"]
                      ELSE [proc EXCEPT ![p].pc = "acquire"]
          /\ UNCHANGED <<svcProcessing, attempts, faults>>
     ELSE /\ faults < MaxFaults
          /\ faults' = faults + 1
          /\ proc' = [proc EXCEPT ![p].pc = "returned", ![p].outcome = "threw",
                                  ![p].client = "none"]
          /\ attempts' = [attempts EXCEPT ![proc[p].att].result = "failed",
                                          ![proc[p].att].why = "connect"]
          /\ svcProcessing' = IF Awaited(p) THEN svcProcessing ELSE FALSE
  /\ UNCHANGED <<now, limOwn, drvVars, batch, processedRepos, lastProcessTime,
                 repositories, repository_topics, immediates, accepted, calls>>

\* the promise of rateLimiter.acquire(`batch-...`) settles; when it
\* resolves BEGIN and the upsert statement are sent
\* (repository-service.ts:93-151)
AcquireSettle(p, ok) ==
  /\ Quiet
  /\ proc[p].pc = "acquire"
  /\ ok \/ faults < MaxFaults
  /\ faults' = IF ok THEN faults ELSE faults + 1
  /\ proc' = IF ok THEN [proc EXCEPT ![p].pc = "upsert"]
             ELSE [proc EXCEPT ![p].pc = "rollback", ![p].why = "limiter"]
  /\ UNCHANGED <<now, limOwn, drvVars, batch, processedRepos, svcProcessing,
                 lastProcessTime, repositories, repository_topics, immediates,
                 attempts, accepted, calls>>

\* BEGIN and the upsert statement settle; the topic tasks start
\* (repository-service.ts:95-157)
Upsert(p, ok) ==
  /\ Quiet
  /\ proc[p].pc = "upsert"
  /\ IF upsertRefused(repositories, proc[p].cur) THEN ~ok
     ELSE ok \/ faults < MaxFaults
  /\ faults' = IF ok \/ upsertRefused(repositories, proc[p].cur) THEN faults
               ELSE faults + 1
  /\ LET cur == proc[p].cur
         ts == [i \in {r.id : r \in {x \in Range(cur) : x.topics # {}}} |-> "acquire"]
     IN  proc' = [proc EXCEPT
                    ![p].pc = IF ~ok THEN "rollback"
                              ELSE IF DOMAIN ts = {} THEN "commit"
                              ELSE "topics",
                    ![p].tasks = IF ok THEN ts ELSE @,
                    ![p].why = IF ok THEN @ ELSE "write"]
  /\ UNCHANGED <<now, limOwn, drvVars, batch, processedRepos, svcProcessing,
                 lastProcessTime, repositories, repository_topics, immediates,
                 attempts, accepted, calls>>

\* A topic task of the Promise.all (repository-service.ts:155-165).  Its
\* pc is acquire while it awaits the limiter; delete or insert while the
\* statement it sent before the catch block sent ROLLBACK is under way;
\* sdelete or sinsert while a statement it sent after that is under way.
\* The client runs statements in the order they were sent, so the latter
\* are executed after the ROLLBACK, outside any transaction.  The first
\* task that fails rejects the Promise.all; the other tasks go on.
inAll(p) == proc[p].pc = "topics"
\* the records of a batch whose upsert was accepted have distinct ids
TopicIds == 1..MaxId
taskRepo(p, i) == CHOOSE r \in Range(proc[p].cur) : r.id = i
failTask(p, i, w) ==
  proc' = [proc EXCEPT ![p].tasks[i] = "failed",
                       ![p].pc = IF inAll(p) THEN "rollback" ELSE @,
                       ![p].why = IF inAll(p) THEN w ELSE @]

\* the promise of rateLimiter.acquire(`topics-...`) settles and the DELETE
\* is sent (repository-service.ts:157-158)
TaskAcquire(p, i, ok) ==
  /\ Quiet
  /\ i \in DOMAIN proc[p].tasks /\ proc[p].tasks[i] = "acquire"
  /\ ok \/ faults < MaxFaults
  /\ faults' = IF ok THEN faults ELSE faults + 1
  /\ IF ok
     THEN proc' = [proc EXCEPT ![p].tasks[i] = IF inAll(p) THEN "delete" ELSE "sdelete"]
     ELSE failTask(p, i, "limiter")
  /\ UNCHANGED <<now, limOwn, drvVars, batch, processedRepos, svcProcessing,
                 lastProcessTime, repositories, repository_topics, immediates,
                 attempts, accepted, calls>>

\* the DELETE settles and the INSERT is sent (repository-service.ts:158-163)
TaskDelete(p, i, ok) ==
  /\ Quiet
  /\ i \in DOMAIN proc[p].tasks /\ proc[p].tasks[i] \in {"delete", "sdelete"}
  /\ LET stray == proc[p].tasks[i] = "sdelete"
     IN  /\ stray => proc[p].client # "tx"
         /\ IF stray /\ proc[p].client = "broken" THEN ~ok
            ELSE ok \/ faults < MaxFaults
         /\ faults' = IF ok \/ (stray /\ proc[p].client = "broken") THEN faults
                      ELSE faults + 1
         /\ repository_topics' =
              IF ok /\ stray THEN deleteTopics(repository_topics, taskRepo(p, i))
              ELSE repository_topics
         /\ IF ok
            THEN proc' = [proc EXCEPT ![p].tasks[i] =
                            IF inAll(p) THEN "insert" ELSE "sinsert"]
            ELSE failTask(p, i, "write")
  /\ UNCHANGED <<now, limOwn, drvVars, batch, processedRepos, svcProcessing,
                 lastProcessTime, repositories, immediates, attempts, accepted, calls>>

\* the INSERT settles (repository-service.ts:163-166); outside a
\* transaction it is refused when the repository has no row or has one of
\* the topics already (part_017:71-72)
TaskInsert(p, i, ok) ==
  /\ Quiet
  /\ i \in DOMAIN proc[p].tasks /\ proc[p].tasks[i] \in {"insert", "sinsert"}
  /\ LET stray == proc[p].tasks[i] = "sinsert"
         r == taskRepo(p, i)
         refused == stray /\ (\/ proc[p].client = "broken"
                              \/ ~\E row \in repositories : row.id = r.id
                              \/ \E row \in repository_topics :
                                    row.id = r.id /\ row.topic \in r.topics)
     IN  /\ stray => proc[p].client # "tx"
         /\ IF refused THEN ~ok ELSE ok \/ faults < MaxFaults
         /\ faults' = IF ok \/ refused THEN faults ELSE faults + 1
         /\ repository_topics' =
              IF ok /\ stray THEN insertTopics(repository_topics, r, proc[p].att)
              ELSE repository_topics
         /\ IF ok
            THEN LET ts == [proc[p].tasks EXCEPT ![i] = "done"]
                 IN  proc' = [proc EXCEPT
                                ![p].tasks = ts,
                                ![p].pc = IF inAll(p) /\ \A j \in DOMAIN ts : TaskSettled(ts[j])
                                          THEN "commit" ELSE @]
            ELSE failTask(p, i, "write")
  /\ UNCHANGED <<now, limOwn, drvVars, batch, processedRepos, svcProcessing,
                 lastProcessTime, repositories, immediates, attempts, accepted, calls>>

\* COMMIT settles (repository-service.ts:168-172, 182-189)
Commit(p, ok) ==
  /\ Quiet
  /\ proc[p].pc = "commit"
  /\ LET cur == proc[p].cur
         a == proc[p].att
     IN  IF ok
         THEN /\ repositories' = upsertAll(repositories, cur, a)
              /\ repository_topics' = replaceAll(repository_topics, cur, a)
              /\ processedRepos' = processedRepos \cup {r.full_name : r \in Range(cur)}
              /\ lastProcessTime' = now
              /\ attempts' = [attempts EXCEPT ![a].result = "committed"]
              /\ svcProcessing' = FALSE
              /\ immediates' = IF Len(batch) >= BATCH_SIZE THEN immediates + 1
                               ELSE immediates
              /\ proc' = [proc EXCEPT ![p].pc = "returned", ![p].outcome = "committed",
                                      ![p].client = "auto"]
              /\ UNCHANGED faults
         ELSE /\ faults < MaxFaults
              /\ faults' = faults + 1
              /\ proc' = [proc EXCEPT ![p].pc = "rollback", ![p].why = "write"]
              /\ UNCHANGED <<repositories, repository_topics, processedRepos,
                             lastProcessTime, attempts, svcProcessing, immediates>>
  /\ UNCHANGED <<now, limOwn, drvVars, batch, accepted, calls>>

\* ROLLBACK settles, after the statements sent before it
\* (repository-service.ts:175-181).  When it is rejected the catch block is
\* left at once: nothing is put back, the finally block runs and
\* processBatch rejects.
Rollback(p, ok) ==
  /\ Quiet
  /\ proc[p].pc = "rollback"
  /\ \A i \in DOMAIN proc[p].tasks : proc[p].tasks[i] \notin {"delete", "insert"}
  /\ attempts' = [attempts EXCEPT ![proc[p].att].result = "failed",
                                  ![proc[p].att].why = proc[p].why]
  /\ IF ok
     THEN /\ batch' = proc[p].cur \o batch
          /\ proc' = [proc EXCEPT
                        ![p].pc = "backoff", ![p].client = "auto",
                        ![p].wake = now + backoffDelay(Len(proc[p].cur \o batch))]
          /\ UNCHANGED <<svcProcessing, immediates, faults>>
     ELSE /\ faults < MaxFaults
          /\ faults' = faults + 1
          /\ svcProcessing' = FALSE
          /\ immediates' = IF Len(batch) >= BATCH_SIZE THEN immediates + 1
                           ELSE immediates
          /\ proc' = [proc EXCEPT ![p].pc = "returned", ![p].outcome = "threw",
                                  ![p].client = "broken"]
          /\ UNCHANGED batch
  /\ UNCHANGED <<now, limOwn, drvVars, processedRepos, lastProcessTime, repositories,
                 repository_topics, accepted, calls>>

\* the backoff sleep ends (repository-service.ts:181-189)
BackoffEnd(p) ==
  /\ Quiet
  /\ proc[p].pc = "backoff" /\ proc[p].wake <= now
  /\ finish(p, batch, "failed")
  /\ UNCHANGED <<now, limOwn, drvVars, batch, processedRepos, lastProcessTime,
                 repositories, repository_topics, attempts, accepted, calls, faults>>

\* the caller has its answer and the topic tasks of the invocation are over
Release(p) ==
  /\ proc[p].pc = "returned"
  /\ \A i \in DOMAIN proc[p].tasks : TaskSettled(proc[p].tasks[i])
  /\ proc' = [proc EXCEPT ![p] = NoProc]
  /\ UNCHANGED <<now, limOwn, drvVars, batch, processedRepos, svcProcessing,
                 lastProcessTime, repositories, repository_topics, immediates,
                 attempts, accepted, calls, faults>>

\* handleError (repository-service.ts:26-31), run for an uncaught exception
\* or an unhandled rejection anywhere in the process, such as the rejection
\* of the saveState that updateLimits does not await (rate-limiter.ts:203)
handleError ==
  /\ Quiet
  /\ svcProcessing
  /\ faults < MaxFaults
  /\ faults' = faults + 1
  /\ svcProcessing' = FALSE
  /\ UNCHANGED <<now, limOwn, drvVars, batch, processedRepos, lastProcessTime,
                 repositories, repository_topics, proc, immediates, attempts,
                 accepted, calls>>

Sleeping(p) == proc[p].pc \in {"wait", "backoff"}

\* time passes while no sleep of the writer is due: to the end of the next
\* sleep, or by MIN_BATCH_INTERVAL
WriterAdvance ==
  /\ Quiet
  /\ \A p \in Procs : Sleeping(p) => proc[p].wake > now
  /\ LET dues == {proc[p].wake : p \in {q \in Procs : Sleeping(q)}}
                   \cup {now + MIN_BATCH_INTERVAL}
         next == CHOOSE d \in dues : \A e \in dues : d <= e
     IN  /\ next <= WriterMaxTime
         /\ now' = next
  /\ UNCHANGED <<limOwn, wrVars, drvVars>>

\* the writer after construction, with b left pending by earlier calls of
\* queueRepository
WriterStart(b) ==
  /\ batch = b
  /\ processedRepos = {}
  /\ svcProcessing = FALSE
  /\ lastProcessTime = 0
  /\ repositories = {} /\ repository_topics = {}
  /\ proc = [p \in Procs |-> NoProc]
  /\ immediates = 0
  /\ attempts = <<>>
  /\ accepted = {}
  /\ calls = 0 /\ faults = 0

\* what a sequential caller does: BATCH_SIZE + 1 distinct new records and a
\* flush, or the same repository twice with a flush after each
Call(o, r) == [op |-> o, rec |-> r]
ScriptOverflow ==
  [i \in 1..(BATCH_SIZE + 2) |->
     IF i <= BATCH_SIZE + 1 THEN Call("enqueue", Rec(FillBase + i, 1, {}))
     ELSE Call("flush", Rec(0, 0, {}))]
ScriptTwice ==
  <<Call("enqueue", Rec(1, 1, {"a"})), Call("flush", Rec(0, 0, {})),
    Call("enqueue", Rec(1, 2, {"b"})), Call("flush", Rec(0, 0, {}))>>

\* a refresh of a repository that the store already holds, as
\* update-all-data.ts does for each row it has read from the table
\* (update-all-data.ts:62-115): the record with its current topics, then a
\* flush
Topics == {"a", "b"}
ScriptRefresh(cur) ==
  <<Call("enqueue", Rec(1, 2, cur)), Call("flush", Rec(0, 0, {}))>>

\* the writer before any call, over a store that an earlier run has filled
\* with repository 1 and the topics prev
StoreStart(prev) ==
  /\ batch = <<>>
  /\ processedRepos = {}
  /\ svcProcessing = FALSE
  /\ lastProcessTime = 0
  /\ repositories = {[id |-> 1, full_name |-> 1, upd |-> 1, fix |-> 1, att |-> 0]}
  /\ repository_topics = {[id |-> 1, topic |-> t, att |-> 0] : t \in prev}
  /\ proc = [p \in Procs |-> NoProc]
  /\ immediates = 0
  /\ attempts = <<>>
  /\ accepted = {}
  /\ calls = 0 /\ faults = 0

\* ---------------------------------------------------------------------
\* The fetch clients: fetchRepository with retryWithBackoff
\* (parser.ts:267-413) and fetchRepositoryContributors (part_020:219-321)
\* ---------------------------------------------------------------------
CACHE_TTL == 86400000
\* MAX_RETRIES and RETRY_DELAY of the client module (parser.ts:225-226)
CLIENT_MAX_RETRIES == 3
CLIENT_RETRY_DELAY == 5000
\* maxRetries, baseDelay and the delay between two pages of
\* fetchRepositoryContributors (part_020:242, 243, 295)
maxRetries == 5
baseDelay == 10000
PAGE_DELAY == 5000

\* fetches under way at a time, and the resources they are about
MaxFetch == 2
\* fetch calls of a caller that awaits each of them
MaxFetchCalls == 2
\* pages of a contributor list
MaxPages == 2

Fids == 1..MaxFetch
Resources == 1..MaxFetch
Kinds == {"repo", "contrib"}
CacheFiles == Resources \X Kinds
\* what the API answers: the data, 404, 403 with a rate limit message, 500
Statuses == {"ok", "notfound", "ratelimit", "error"}

\* a cache file: its mtime (-1: there is no file) and whether JSON.parse
\* accepts its content
NoEntry == [mtime |-> -1, good |-> FALSE]
Entry(t, g) == [mtime |-> t, good |-> g]

\* `age < CACHE_TTL` with the comparison turned around
cacheStale(age) == age > CACHE_TTL
\* the test `age < CACHE_TTL` (parser.ts:314, part_020:232)
cacheFresh(age) == age < CACHE_TTL

\* a fetch call.  age and good: the cache entry at the time of the call,
\* its age and whether it parses (age -1: no file); i: the index i of retryWithBackoff, or retryCount; status: the
\* status of the error handled last; out, err: how the call ended; asked,
\* adm, net, tries, slept: the acquire calls made, the admissions granted,
\* the network requests issued, the attempts started and the delays slept
NoFetch ==
  [pc |-> "free", kind |-> "none", key |-> 0, age |-> -1, good |-> FALSE,
   i |-> 0, page |-> 0, wake |-> 0, status |-> "none", out |-> "none",
   err |-> "none", asked |-> 0, adm |-> 0, net |-> 0, tries |-> 0, slept |-> <<>>]

ended(fr, out, err) == [fr EXCEPT !.pc = "done", !.out = out, !.err = err]

\* x-ratelimit-reset of a response, in seconds: the end of the API's
\* current window, an hour after the start of the run
resetHeader == ((CACHE_TTL + 1) \div 1000) + (HOUR \div 1000)

\* what updateLimits writes (rate-limiter.ts:178-203)
updateLimits(f, rem, rs) ==
  [loadState(f, now) EXCEPT !.tokens = rem, !.resetTime = rs * 1000]

\* the call record of a call that finds cache entry e
called(kind, k, e) ==
  [NoFetch EXCEPT !.kind = kind, !.key = k, !.good = e.good,
                  !.age = IF e.mtime >= 0 THEN now - e.mtime ELSE -1]

\* the cache check of both clients (parser.ts:309-334, part_020:227-239):
\* the call record after it, with pc "done" when the cached data is returned
cacheCheck(fr) ==
  IF fr.age >= 0 /\ cacheFresh(fr.age) /\ fr.good
  THEN ended(fr, "cached", "none")
  ELSE [fr EXCEPT !.pc = "acquire", !.asked = @ + 1]

\* fetchRepository(owner, repo) up to its first await (parser.ts:302-336)
fetchRepository(f, k) ==
  /\ fetch[f].pc = "free"
  /\ LET fr == called("repo", k, cache[<<k, "repo">>])
     IN  fetch' = [fetch EXCEPT ![f] =
                     IF ~token THEN ended(fr, "threw", "GitHubError")
                     ELSE cacheCheck(fr)]
  /\ fcalls' = fcalls + 1

\* fetchRepositoryContributors(owner, repo) up to its first await
\* (part_020:219-247)
fetchRepositoryContributors(f, k) ==
  /\ fetch[f].pc = "free"
  /\ fetch' = [fetch EXCEPT ![f] =
                 cacheCheck(called("contrib", k, cache[<<k, "contrib">>]))]
  /\ fcalls' = fcalls + 1

\* the catch block of retryWithBackoff (parser.ts:274-280) and, when it
\* throws, the catch block of fetchRepository (parser.ts:398-411)
retryFail(fr, status) ==
  IF fr.i = CLIENT_MAX_RETRIES - 1
  THEN CASE status = "notfound" -> ended([fr EXCEPT !.status = status], "null", "none")
         [] status = "ratelimit" ->
              ended([fr EXCEPT !.status = status], "threw", "RateLimitError")
         [] OTHER -> ended([fr EXCEPT !.status = status], "threw", "GitHubError")
  ELSE [fr EXCEPT !.pc = "sleep", !.status = status,
                  !.wake = now + CLIENT_RETRY_DELAY * Pow2(fr.i),
                  !.slept = Append(@, CLIENT_RETRY_DELAY * Pow2(fr.i))]

\* the catch block of fetchRepositoryContributors (part_020:304-317)
contribFail(fr, status, err) ==
  IF status = "ratelimit"
  THEN [fr EXCEPT !.pc = "sleep", !.status = status, !.i = @ + 1,
                  !.wake = now + baseDelay * Pow2(fr.i + 1),
                  !.slept = Append(@, baseDelay * Pow2(fr.i + 1))]
  ELSE ended([fr EXCEPT !.status = status], "threw", err)

\* the promise of an acquire call settles.  Admitted, fetchRepository
\* sends repos.get (parser.ts:336-345) or listContributors (352-358), and
\* fetchRepositoryContributors sends its first page (part_020:247-259).
FetchAcquired(f, ok) ==
  /\ fetch[f].pc \in {"acquire", "acquire2"}
  /\ LET fr == fetch[f]
         go == [fr EXCEPT !.adm = @ + 1, !.net = @ + 1]
     IN  fetch' = [fetch EXCEPT ![f] =
           CASE fr.kind = "repo" /\ fr.pc = "acquire" ->
                  IF ok THEN [go EXCEPT !.pc = "get", !.tries = @ + 1]
                  ELSE ended(fr, "threw", "RateLimitError")
             [] fr.kind = "repo" /\ fr.pc = "acquire2" ->
                  IF ok THEN [go EXCEPT !.pc = "list"]
                  ELSE retryFail(fr, "limiter")
             [] OTHER ->
                  IF ok THEN [go EXCEPT !.pc = "list", !.page = 1, !.tries = @ + 1]
                  ELSE contribFail(fr, "limiter", "RateLimitError")]
  /\ UNCHANGED <<now, stateFile, token, cache, fcalls>>
  /\ UNCHANGED notClient

\* repos.get answers (parser.ts:345-352)
RepoGetResponse(f, status, rem) ==
  /\ fetch[f].pc = "get"
  /\ IF status = "ok"
     THEN /\ stateFile' = updateLimits(stateFile, rem, resetHeader)
          /\ fetch' = [fetch EXCEPT ![f].pc = "acquire2", ![f].asked = @ + 1]
     ELSE /\ rem = 0
          /\ fetch' = [fetch EXCEPT ![f] = retryFail(fetch[f], status)]
          /\ UNCHANGED stateFile
  /\ UNCHANGED <<now, token, cache, fcalls>>
  /\ UNCHANGED notClient

\* writeFileSync(cacheFile, ...) (parser.ts:396, part_020:300): the file
\* as written, w: the write succeeds
cacheWrite(c, w) == [cache EXCEPT ![c] = Entry(now, w)]

\* listContributors of fetchRepository answers (parser.ts:353-411)
RepoListResponse(f, status, w) ==
  /\ fetch[f].pc = "list" /\ fetch[f].kind = "repo"
  /\ IF status = "ok"
     THEN /\ cache' = cacheWrite(<<fetch[f].key, "repo">>, w)
          /\ fetch' = [fetch EXCEPT ![f] =
                         IF w THEN ended(@, "record", "none")
                         ELSE ended([@ EXCEPT !.status = "fs"], "threw", "GitHubError")]
     ELSE /\ w
          /\ fetch' = [fetch EXCEPT ![f] = retryFail(fetch[f], status)]
          /\ UNCHANGED cache
  /\ UNCHANGED <<now, stateFile, token, fcalls>>
  /\ UNCHANGED notClient

\* a page of fetchRepositoryContributors answers (part_020:254-317); more:
\* the link header names a next page and the page is full
ContribListResponse(f, status, rem, more, w) ==
  /\ fetch[f].pc = "list" /\ fetch[f].kind = "contrib"
  /\ IF status = "ok"
     THEN /\ stateFile' = updateLimits(stateFile, rem, resetHeader)
          /\ IF more
             THEN /\ w /\ fetch[f].page < MaxPages
                  /\ fetch' = [fetch EXCEPT ![f].pc = "pagesleep", ![f].page = @ + 1,
                                            ![f].wake = now + PAGE_DELAY]
                  /\ UNCHANGED cache
             ELSE /\ cache' = cacheWrite(<<fetch[f].key, "contrib">>, w)
                  /\ fetch' = [fetch EXCEPT ![f] =
                                 IF w THEN ended(@, "record", "none")
                                 ELSE contribFail(@, "fs", "FsError")]
     ELSE /\ rem = 0 /\ ~more /\ w
          /\ fetch' = [fetch EXCEPT ![f] = contribFail(fetch[f], status, "HttpError")]
          /\ UNCHANGED <<stateFile, cache>>
  /\ UNCHANGED <<now, token, fcalls>>
  /\ UNCHANGED notClient

\* the delay between two pages is over: the next page is requested
\* (part_020:295, 253-259)
PageWake(f) ==
  /\ fetch[f].pc = "pagesleep" /\ fetch[f].wake <= now
  /\ fetch' = [fetch EXCEPT ![f].pc = "list", ![f].net = @ + 1]
  /\ UNCHANGED <<now, stateFile, token, cache, fcalls>>
  /\ UNCHANGED notClient

\* the delay after a failed attempt is over.  retryWithBackoff calls the
\* operation again, which starts with repos.get (parser.ts:271-273,
\* 344-345); fetchRepositoryContributors tests retryCount and starts over
\* with acquire (part_020:245-247, 320).
RetryWake(f) ==
  /\ fetch[f].pc = "sleep" /\ fetch[f].wake <= now
  /\ LET fr == fetch[f]
     IN  fetch' = [fetch EXCEPT ![f] =
           IF fr.kind = "repo"
           THEN [fr EXCEPT !.pc = "get", !.i = @ + 1, !.tries = @ + 1, !.net = @ + 1]
           ELSE IF fr.i < maxRetries
                THEN [fr EXCEPT !.pc = "acquire", !.asked = @ + 1]
                ELSE ended(fr, "threw", "Error")]
  /\ UNCHANGED <<now, stateFile, token, cache, fcalls>>
  /\ UNCHANGED notClient

FetchSleeping(f) == fetch[f].pc \in {"sleep", "pagesleep"}

\* time passes to the end of the next delay of a fetch
ClientAdvance ==
  /\ \E f \in Fids : FetchSleeping(f)
  /\ \A f \in Fids : FetchSleeping(f) => fetch[f].wake > now
  /\ LET dues == {fetch[f].wake : f \in {g \in Fids : FetchSleeping(g)}}
     IN  now' = CHOOSE d \in dues : \A e \in dues : d <= e
  /\ UNCHANGED <<stateFile, cliVars>>
  /\ UNCHANGED notClient

\* a caller of the clients that awaits each fetch before the next one
FetchCall(kind, k) ==
  /\ fcalls < MaxFetchCalls
  /\ \A g \in Fids : fetch[g].pc = "free"
  /\ IF kind = "repo" THEN fetchRepository(1, k) ELSE fetchRepositoryContributors(1, k)
  /\ UNCHANGED <<now, stateFile, token, cache>>
  /\ UNCHANGED notClient

\* the caller has the result of its fetch
FetchReturn(f) ==
  /\ fetch[f].pc = "done"
  /\ fetch' = [fetch EXCEPT ![f] = NoFetch]
  /\ UNCHANGED <<now, stateFile, token, cache, fcalls>>
  /\ UNCHANGED notClient

\* the clients before any call, with cache c
ClientStart(c) ==
  /\ cache = c
  /\ fetch = [f \in Fids |-> NoFetch]
  /\ fcalls = 0

\* the cache a previous run may have left for resource 1: nothing, or an
\* entry of both kinds that is one millisecond short of CACHE_TTL old,
\* exactly CACHE_TTL old, or older
CacheAges == {-1, CACHE_TTL - 1, CACHE_TTL, CACHE_TTL + 1}
InitCache(age) ==
  [c \in CacheFiles |->
     IF c[1] = 1 /\ age >= 0 THEN Entry(now - age, TRUE) ELSE NoEntry]

\* ---------------------------------------------------------------------
\* saveState system call by system call (rate-limiter.ts:147-174), a crash
\* of the process, and its restart (rate-limiter.ts:50-71, 103-120)
\* ---------------------------------------------------------------------
\* saveState calls of a run
MaxSaves == 3

\* pc: where saveState stands (down: the process has crashed); arg: the
\* state it was called with; last: the latest state written in full; seen:
\* what the first loadState after a restart returned; n: calls so far
NoSave == [pc |-> "idle", arg |-> NoState, last |-> NoState, seen |-> <<>>, n |-> 0]
SaveIdle == backupFile = <<>> /\ save = NoSave

notSave == <<now, limRest, wrVars, drvVars, toolVars>>

\* saveState(state) up to the end of copyFileSync (lines 150-154); the
\* state file exists.  The callers pass the loaded state with new limits
\* (updateLimits) or with one more request counted (processQueue).
SaveBegin(st) ==
  /\ save.pc = "idle" /\ save.n < MaxSaves
  /\ backupFile' = <<stateFile>>
  /\ save' = [save EXCEPT !.pc = "copied", !.arg = st, !.seen = <<>>, !.n = @ + 1]
  /\ UNCHANGED <<stateFile, notSave>>

\* writeFileSync opens the state file, which truncates it (line 157)
SaveWriteOpen ==
  /\ save.pc = "copied"
  /\ stateFile' = CorruptFile
  /\ save' = [save EXCEPT !.pc = "writing"]
  /\ UNCHANGED <<backupFile, notSave>>

\* writeFileSync returns, or throws and the catch block restores the backup
\* (lines 157, 164-171)
SaveWriteEnd(ok) ==
  /\ save.pc = "writing"
  /\ IF ok
     THEN /\ stateFile' = save.arg
          /\ save' = [save EXCEPT !.pc = "written", !.last = save.arg]
          /\ UNCHANGED backupFile
     ELSE /\ stateFile' = backupFile[1]
          /\ backupFile' = <<>>
          /\ save' = [save EXCEPT !.pc = "idle"]
  /\ UNCHANGED notSave

\* the backup is removed (lines 160-163)
SaveUnlink ==
  /\ save.pc = "written"
  /\ backupFile' = <<>>
  /\ save' = [save EXCEPT !.pc = "idle"]
  /\ UNCHANGED <<stateFile, notSave>>

\* the process dies between two system calls of saveState
Crash ==
  /\ save.pc \in {"copied", "writing", "written"}
  /\ save' = [save EXCEPT !.pc = "down"]
  /\ UNCHANGED <<stateFile, backupFile, notSave>>

\* the process starts again: the constructor finds the state file and
\* leaves it alone (lines 58-71), and the first loadState reads it
\* (lines 103-120)
Restart ==
  /\ save.pc = "down"
  /\ save' = [save EXCEPT !.pc = "idle", !.seen = <<loadState(stateFile, now)>>]
  /\ UNCHANGED <<stateFile, backupFile, notSave>>


\* ---------------------------------------------------------------------
\* importEcosystemReposDirectly (import-repos.ts:158-305): the ingestion
\* run over the URLs of an ecosystem file
\* ---------------------------------------------------------------------
\* URLs of a run, the concurrency and batchSize options of the run
MaxUrls == 3
Concurrency == 2
BatchSize == 3

Workers == 1..Concurrency
\* a URL either matches the github.com pattern or does not (line 214)
UrlKinds == {"github", "other"}
UrlLists == UNION {[1..n -> UrlKinds] : n \in 1..MaxUrls}
\* how a call of fetchRepositoryFromUrl ends (parser.ts:285-413): the
\* cached or the fetched record, null, or an exception
RepoOutcomes == {"cached", "record", "null", "threw"}

NoStats == [total |-> 0, successful |-> 0, failed |-> 0, skipped |-> 0]
NoWorker == [pc |-> "none", url |-> 0]
\* no run: pc is the position in the function, i the loop index, w the
\* callbacks of the current group, status what became of each URL, cause
\* the call whose exception reached the outer catch
NoRun ==
  [pc |-> "off", urls |-> <<>>, i |-> 0, w |-> [k \in Workers |-> NoWorker],
   stats |-> NoStats, processedInBatch |-> 0, status |-> <<>>, cause |-> "none"]
RunIdle == run = NoRun

notRun == <<limVars, wrVars, script, ip, cliVars, saveVars, toolVars>>

\* the URLs of the group that starts at index i (line 210)
Group(r) == {u \in 1..Len(r.urls) : r.i < u /\ u <= r.i + Concurrency}

\* the same place with the failure passed on to the caller
failedRethrown(r, k, st) == [r EXCEPT !.pc = "aborted", !.cause = "url"]

\* a URL has failed: counted and reported as the callback's result
\* (lines 216-220, 228-232, 239-243)
failed(r, k, st) ==
  [r EXCEPT !.stats.failed = @ + 1,
            !.w[k] = [@ EXCEPT !.pc = "done"],
            !.status[r.w[k].url] = st]

\* a callback up to its first await (lines 212-226)
startUrl(r, k) ==
  LET u == r.i + k
      r1 == [r EXCEPT !.w[k] = [pc |-> "fetch", url |-> u], !.status[u] = "pending"]
  IN IF u > Len(r.urls) THEN [r EXCEPT !.w[k] = NoWorker]
     ELSE IF r.urls[u] = "other" THEN failed(r1, k, "invalid_url")
     ELSE r1

RECURSIVE startGroup(_, _)
startGroup(r, k) == IF k > Concurrency THEN r ELSE startGroup(startUrl(r, k), k + 1)

\* initialize and parseEcosystemFile (lines 185-206)
RunInitialize(ok) ==
  /\ run.pc = "init"
  /\ run' = IF ok THEN [run EXCEPT !.pc = "loop", !.stats.total = Len(run.urls)]
            ELSE [run EXCEPT !.pc = "aborted", !.cause = "initialize"]
  /\ UNCHANGED notRun

\* an iteration of the loop begins: every callback of the group runs to
\* its first await, then Promise.all is awaited (lines 209-247)
GroupStart ==
  /\ run.pc = "loop" /\ run.i < Len(run.urls)
  /\ run' = [startGroup(run, 1) EXCEPT !.pc = "await"]
  /\ UNCHANGED notRun

\* fetchRepositoryFromUrl settles (lines 226-235)
FetchSettle(k, out) ==
  /\ run.pc = "await" /\ run.w[k].pc = "fetch"
  /\ run' = CASE out = "null" -> failed(run, k, "not_found")
              [] out = "threw" -> failed(run, k, "error")
              [] OTHER -> [run EXCEPT !.w[k].pc = "queue"]
  /\ UNCHANGED notRun

\* queueRepository settles (lines 235-243)
QueueSettle(k, ok) ==
  /\ run.pc = "await" /\ run.w[k].pc = "queue"
  /\ run' = IF ok
            THEN [run EXCEPT !.stats.successful = @ + 1, !.w[k].pc = "done",
                             !.status[run.w[k].url] = "success"]
            ELSE failed(run, k, "error")
  /\ UNCHANGED notRun

\* Promise.all resolves; flush is called when enough URLs were processed
\* (lines 247-259)
GroupEnd ==
  /\ run.pc = "await"
  /\ \A k \in Workers : run.w[k].pc \in {"none", "done"}
  /\ LET n == run.processedInBatch + Cardinality(Group(run))
     IN run' = IF n >= BatchSize
               THEN [run EXCEPT !.processedInBatch = n, !.pc = "flush"]
               ELSE [run EXCEPT !.processedInBatch = n, !.pc = "loop",
                                !.i = @ + Concurrency]
  /\ UNCHANGED notRun

\* that flush settles (lines 257-258, 290-293)
FlushSettle(ok) ==
  /\ run.pc = "flush"
  /\ run' = IF ok
            THEN [run EXCEPT !.processedInBatch = 0, !.pc = "loop", !.i = @ + Concurrency]
            ELSE [run EXCEPT !.pc = "aborted", !.cause = "flush"]
  /\ UNCHANGED notRun

\* the loop is over and the last flush is called (lines 209, 286)
LoopEnd ==
  /\ run.pc = "loop" /\ run.i >= Len(run.urls)
  /\ run' = [run EXCEPT !.pc = "final"]
  /\ UNCHANGED notRun

\* the last flush settles and the counts are reported (lines 286-303)
FinalFlushSettle(ok) ==
  /\ run.pc = "final"
  /\ run' = IF ok THEN [run EXCEPT !.pc = "reported"]
            ELSE [run EXCEPT !.pc = "aborted", !.cause = "flush"]
  /\ UNCHANGED notRun

\* a run over the list urls is called
RunStart(urls) ==
  run = [NoRun EXCEPT !.pc = "init", !.urls = urls, !.status = [u \in 1..Len(urls) |-> "none"]]


\* ---------------------------------------------------------------------
\* parseEcosystemFile (parser.ts:10-41): the source reader
\* ---------------------------------------------------------------------
\* lines of a source file
MaxLines == 2

\* A line is a sequence of tokens: "#", "sp" (a blank), "url", "=", "q" (a
\* double quote), "key" (any other word) and the values between quotes.
FooBar == "https://github.com/foo/bar"
BazQux == "https://github.com/baz/qux"
Elsewhere == "https://gitlab.com/foo/bar"
\* the values with the text github.com in them
Hosted == {FooBar, BazQux}

Assign(k, v) == <<k, "sp", "=", "sp", "q", v, "q">>
SourceLines ==
  { Assign("url", FooBar),                          \* url = "https://github.com/foo/bar"
    <<"#", "sp">> \o Assign("url", BazQux),         \* # url = "https://github.com/baz/qux"
    <<"sp", "#">> \o Assign("url", BazQux),         \* an indented comment
    <<>>, <<"sp", "sp">>,                           \* blank lines
    Assign("url", Elsewhere),                       \* another host
    Assign("key", BazQux),                          \* another key
    <<"url", "=", "q", BazQux, "q">>,               \* url="..."
    <<"url", "sp", "sp", "=", "sp", "q", BazQux, "q">>,  \* url  = "..."
    <<"url", "sp", "=", "sp", "sp", "q", BazQux, "q">>,  \* url =  "..."
    <<"url", "sp", "=", "sp", "q", "q">>,           \* url = ""
    <<"url", "sp", "=", "sp", "q", BazQux>>,        \* no closing quote
    <<"sp">> \o Assign("url", BazQux) \o <<"sp", "#", "key">> }
SourceFiles == UNION {[1..n -> SourceLines] : n \in 0..MaxLines}

\* String.prototype.trim, startsWith, includes
RECURSIVE trimStart(_)
trimStart(l) == IF l # <<>> /\ Head(l) = "sp" THEN trimStart(Tail(l)) ELSE l
RECURSIVE trimEnd(_)
trimEnd(l) ==
  IF l # <<>> /\ l[Len(l)] = "sp" THEN trimEnd(SubSeq(l, 1, Len(l) - 1)) ELSE l
trim(l) == trimEnd(trimStart(l))
startsWith(l, t) == l # <<>> /\ l[1] = t
includes(l, pat) ==
  \E i \in 1..(Len(l) - Len(pat) + 1) : SubSeq(l, i, i + Len(pat) - 1) = pat

\* line.match(/url\s*=\s*"([^"]+)"/) (line 30): <<group 1>> of the
\* leftmost match, <<>> for null
RECURSIVE skipSpaces(_, _)
skipSpaces(l, i) == IF i <= Len(l) /\ l[i] = "sp" THEN skipSpaces(l, i + 1) ELSE i
RECURSIVE endOfValue(_, _)
endOfValue(l, i) == IF i <= Len(l) /\ l[i] # "q" THEN endOfValue(l, i + 1) ELSE i
matchAt(l, i) ==
  LET e == skipSpaces(l, i + 1)
      o == skipSpaces(l, e + 1)
      c == endOfValue(l, o + 1)
  IN  IF /\ l[i] = "url"
         /\ e <= Len(l) /\ l[e] = "="
         /\ o <= Len(l) /\ l[o] = "q"
         /\ c > o + 1 /\ c <= Len(l)
      THEN <<SubSeq(l, o + 1, c - 1)>>
      ELSE <<>>
RECURSIVE matchFrom(_, _)
matchFrom(l, i) ==
  IF i > Len(l) THEN <<>>
  ELSE IF matchAt(l, i) # <<>> THEN matchAt(l, i)
  ELSE matchFrom(l, i + 1)
match(l) == matchFrom(l, 1)
\* match[1].includes('github.com') (line 31)
hasHost(v) == \E j \in DOMAIN v : v[j] \in Hosted

\* the body of the loop for one line (lines 25-34); a value is one token
parseLine(urls, line) ==
  IF startsWith(trim(line), "#") \/ trim(line) = <<>> THEN urls
  ELSE IF /\ includes(line, <<"url", "sp", "=">>)
          /\ match(line) # <<>>
          /\ hasHost(match(line)[1])
       THEN urls \o match(line)[1]
       ELSE urls

NoReader ==
  [pc |-> "off", exists |-> FALSE, file |-> <<>>, pos |-> 0, urls |-> <<>>,
   out |-> <<>>]

\* the next line of the stream is read (lines 24-34)
ReadLine ==
  /\ reader.pc = "reading" /\ reader.exists /\ reader.pos < Len(reader.file)
  /\ reader' = [reader EXCEPT !.pos = @ + 1,
                              !.urls = parseLine(@, reader.file[reader.pos + 1])]
  /\ UNCHANGED <<limVars, wrVars, drvVars, saveVars, dbq, calc>>

\* the stream has ended (line 37)
ParseReturn ==
  /\ reader.pc = "reading" /\ reader.exists /\ reader.pos = Len(reader.file)
  /\ reader' = [reader EXCEPT !.pc = "returned", !.out = reader.urls]
  /\ UNCHANGED <<limVars, wrVars, drvVars, saveVars, dbq, calc>>

\* the file cannot be read: the stream throws in the loop (lines 38-40)
ParseFail ==
  /\ reader.pc = "reading" /\ ~reader.exists
  /\ reader' = [reader EXCEPT !.pc = "returned", !.out = <<>>]
  /\ UNCHANGED <<limVars, wrVars, drvVars, saveVars, dbq, calc>>

\* parseEcosystemFile is called on file f
ReaderStart(ex, f) == reader = [NoReader EXCEPT !.pc = "reading", !.exists = ex, !.file = f]

\* ---------------------------------------------------------------------
\* DatabaseQueue (part_017:117-179)
\* ---------------------------------------------------------------------
concurrency == 5
\* operations given to add in a run
MaxOps == 8

\* queue: the queued operations, each with the number of its add call and
\* whether it calls add itself before its first await (as the operation of
\* update-all-data.ts:77-79 does through storeRepositoryContributors);
\* running: operations started and not settled; finishing: operations
\* settled whose finally callback has not run yet; adds: add calls so far;
\* started: the operations started, in the order they were started;
\* failures: operations that rejected
NoDbq ==
  [queue |-> <<>>, processing |-> FALSE, activeOperations |-> 0, running |-> 0,
   finishing |-> 0, adds |-> 0, started |-> <<>>, failures |-> 0]
Operation(i, nest) == [id |-> i, nest |-> nest]
\* add calls that queued operations will make when they start
Nested(q) == Cardinality({i \in DOMAIN q.queue : q.queue[i].nest})

\* the same test admitting one operation more
canStartOneMore(active) == active <= concurrency
\* the second test of the while loop (line 141)
canStart(active) == active < concurrency

\* the test of the finally callback, after a variant that never restarts
\* the loop
neverWaiting(waiting) == FALSE
\* `this.queue.length > 0` of the finally callback (line 151)
someWaiting(waiting) == waiting # <<>>

\* one iteration of the loop (lines 142-154): the operation runs to its
\* first await; an add that it calls pushes and finds processing set
startOperation(q) ==
  LET op == Head(q.queue)
  IN  [q EXCEPT !.queue = IF op.nest THEN Append(Tail(@), Operation(q.adds + 1, FALSE))
                          ELSE Tail(@),
                !.adds = IF op.nest THEN @ + 1 ELSE @,
                !.activeOperations = @ + 1,
                !.running = @ + 1,
                !.started = Append(@, op.id)]
RECURSIVE whileLoop(_)
whileLoop(q) ==
  IF q.queue # <<>> /\ canStart(q.activeOperations)
  THEN whileLoop(startOperation(q))
  ELSE q
\* processQueue (lines 135-157)
dbProcessQueue(q) ==
  IF q.processing THEN q
  ELSE [whileLoop([q EXCEPT !.processing = TRUE]) EXCEPT !.processing = FALSE]

\* add(operation) (lines 126-129)
DbAdd(nest) ==
  /\ dbq.adds + Nested(dbq) + (IF nest THEN 2 ELSE 1) <= MaxOps
  /\ dbq' = dbProcessQueue([dbq EXCEPT !.queue = Append(@, Operation(dbq.adds + 1, nest)),
                                      !.adds = @ + 1])
  /\ UNCHANGED <<limVars, wrVars, drvVars, saveVars, reader, calc>>

\* the promise of a running operation settles, fulfilled or rejected; the
\* catch callback swallows the rejection (line 148)
OpSettle(ok) ==
  /\ dbq.running > 0
  /\ dbq' = [dbq EXCEPT !.running = @ - 1, !.finishing = @ + 1,
                        !.failures = IF ok THEN @ ELSE @ + 1]
  /\ UNCHANGED <<limVars, wrVars, drvVars, saveVars, reader, calc>>

\* the finally callback of a settled operation (lines 149-154)
OpFinally ==
  /\ dbq.finishing > 0
  /\ LET q == [dbq EXCEPT !.finishing = @ - 1, !.activeOperations = @ - 1]
     IN  dbq' = IF someWaiting(q.queue) THEN dbProcessQueue(q) ELSE q
  /\ UNCHANGED <<limVars, wrVars, drvVars, saveVars, reader, calc>>

\* ---------------------------------------------------------------------
\* calculateDelay as a function of its inputs (rate-limiter.ts:258-277)
\* ---------------------------------------------------------------------
\* values of totalRequestsThisHour: none, and just above 80%, 90% and 95%
\* of HOURLY_LIMIT
UsageTotals == {0, 3601, 4051, 4276}
\* values of lastRequestTime and of Date.now(), in ms
CallTimes == {0, 250, 500, 1000, 2000, 6000}

NoCalc == [pc |-> "idle", st |-> NoState, t1 |-> 0, t2 |-> 0, d1 |-> 0, d2 |-> 0]

\* a state whose last request was at l, read at t1 and again at t2; the
\* clock does not run backwards, so l <= t1 <= t2
CalcStart(tot, l, t1, t2) ==
  calc = [NoCalc EXCEPT !.pc = "first", !.t1 = t1, !.t2 = t2,
                        !.st = [getDefaultState(0) EXCEPT !.total = tot, !.lastReq = l]]

\* calculateDelay() at t1
CalcFirst ==
  /\ calc.pc = "first"
  /\ calc' = [calc EXCEPT !.pc = "second", !.d1 = calculateDelay(calc.st, calc.t1)]
  /\ UNCHANGED <<limVars, wrVars, drvVars, saveVars, reader, dbq>>

\* calculateDelay() at t2, on the same state
CalcSecond ==
  /\ calc.pc = "second"
  /\ calc' = [calc EXCEPT !.pc = "done", !.d2 = calculateDelay(calc.st, calc.t2)]
  /\ UNCHANGED <<limVars, wrVars, drvVars, saveVars, reader, dbq>>

ToolsIdle == reader = NoReader /\ dbq = NoDbq /\ calc = NoCalc

\* the clients are not called
ClientIdle == token = TRUE /\ ClientStart([c \in CacheFiles |-> NoEntry])

\* ---------------------------------------------------------------------
\* Specifications
\* ---------------------------------------------------------------------

\* the rate limiter alone
Init ==
  /\ LimInit
  /\ WriterStart(<<>>)
  /\ script = <<>> /\ ip = 1
  /\ ClientIdle /\ RunIdle /\ SaveIdle /\ ToolsIdle

Next == LimNext

Spec == Init /\ [][Next]_vars

\* what the writer does by itself once it has been called
WriterSteps ==
  \/ \E p \in Procs : ImmediateRun(p)
  \/ \E p \in Procs : WaitEnd(p)
  \/ \E p \in Procs, ok \in BOOLEAN : Connect(p, ok)
  \/ \E p \in Procs, ok \in BOOLEAN : AcquireSettle(p, ok)
  \/ \E p \in Procs, ok \in BOOLEAN : Upsert(p, ok)
  \/ \E p \in Procs, i \in TopicIds, ok \in BOOLEAN : TaskAcquire(p, i, ok)
  \/ \E p \in Procs, i \in TopicIds, ok \in BOOLEAN : TaskDelete(p, i, ok)
  \/ \E p \in Procs, i \in TopicIds, ok \in BOOLEAN : TaskInsert(p, i, ok)
  \/ \E p \in Procs, ok \in BOOLEAN : Commit(p, ok)
  \/ \E p \in Procs, ok \in BOOLEAN : Rollback(p, ok)
  \/ \E p \in Procs : BackoffEnd(p)
  \/ \E p \in Procs : Release(p)
  \/ handleError
  \/ WriterAdvance

\* the limiter started on a state file with no tokens left and a window
\* that ends at ResetAt
ExhaustedFile ==
  [getDefaultState(0) EXCEPT !.tokens = 0, !.resetTime = ResetAt, !.total = HOURLY_LIMIT]
ResetInit ==
  /\ now = 0
  /\ \E h \in HourlyOffsets : LimStart(ExhaustedFile, h)
  /\ WriterStart(<<>>)
  /\ script = <<>> /\ ip = 1
  /\ ClientIdle /\ RunIdle /\ SaveIdle /\ ToolsIdle

ResetSpec == ResetInit /\ [][Next]_vars

\* the limiter from the state that two failed admissions leave
RetryInit ==
  /\ AfterTwoFailures(0)
  /\ WriterStart(<<>>)
  /\ script = <<>> /\ ip = 1
  /\ ClientIdle /\ RunIdle /\ SaveIdle /\ ToolsIdle

RetrySpec == RetryInit /\ [][Next]_vars

\* the writer under callers that do not wait for each other.  Date.now()
\* is far more than MIN_BATCH_INTERVAL past lastProcessTime = 0 at the start.
WriterInit ==
  /\ now = MIN_BATCH_INTERVAL
  /\ LimStart(getDefaultState(0), HOUR)
  /\ \E b \in {<<>>, Filler} : WriterStart(b)
  /\ script = <<>> /\ ip = 1
  /\ ClientIdle /\ RunIdle /\ SaveIdle /\ ToolsIdle

WriterNext ==
  \/ \E p \in Procs, r \in Records : Enqueue(p, r)
  \/ \E p \in Procs : FlushCall(p)
  \/ WriterSteps

WriterSpec == WriterInit /\ [][WriterNext]_vars

\* the writer under one caller that awaits each of its calls
ScriptInit ==
  /\ now = MIN_BATCH_INTERVAL
  /\ LimStart(getDefaultState(0), HOUR)
  /\ WriterStart(<<>>)
  /\ script \in {ScriptOverflow, ScriptTwice} /\ ip = 1
  /\ ClientIdle /\ RunIdle /\ SaveIdle /\ ToolsIdle

ScriptNext ==
  \/ \E p \in Procs : ScriptStep(p)
  \/ WriterSteps

ScriptSpec == ScriptInit /\ [][ScriptNext]_vars

\* the fetch clients under callers that do not wait for each other, a
\* day and more after the epoch
FetchInit ==
  /\ now = CACHE_TTL + 1
  /\ LimStart(getDefaultState(now), now + HOUR)
  /\ WriterStart(<<>>)
  /\ script = <<>> /\ ip = 1
  /\ token \in BOOLEAN
  /\ \E age \in CacheAges : ClientStart(InitCache(age))
  /\ RunIdle /\ SaveIdle /\ ToolsIdle

FetchSteps ==
  \/ \E f \in Fids, ok \in BOOLEAN : FetchAcquired(f, ok)
  \/ \E f \in Fids, status \in Statuses, rem \in RemainingVals :
       RepoGetResponse(f, status, rem)
  \/ \E f \in Fids, status \in Statuses, w \in BOOLEAN : RepoListResponse(f, status, w)
  \/ \E f \in Fids, status \in Statuses, rem \in RemainingVals, more, w \in BOOLEAN :
       ContribListResponse(f, status, rem, more, w)
  \/ \E f \in Fids : PageWake(f)
  \/ \E f \in Fids : RetryWake(f)

FetchNext ==
  \/ \E kind \in Kinds, k \in Resources : FetchCall(kind, k)
  \/ \E f \in Fids : FetchReturn(f)
  \/ FetchSteps
  \/ ClientAdvance

FetchSpec == FetchInit /\ [][FetchNext]_vars

\* the refresh of a stored repository, for every previous and every
\* current topic set
RefreshInit ==
  /\ now = MIN_BATCH_INTERVAL
  /\ LimStart(getDefaultState(0), HOUR)
  /\ \E prev \in SUBSET Topics : StoreStart(prev)
  /\ \E cur \in SUBSET Topics : script = ScriptRefresh(cur)
  /\ ip = 1
  /\ ClientIdle /\ RunIdle /\ SaveIdle /\ ToolsIdle

\* the steps of the writer that a batch of one record can take: it is the
\* first batch of the process, so processBatch does not sleep before it
\* (WaitEnd), and the batch never holds BATCH_SIZE records (ImmediateRun)
RefreshNext ==
  \/ \E p \in Procs : ScriptStep(p)
  \/ \E p \in Procs, ok \in BOOLEAN : Connect(p, ok)
  \/ \E p \in Procs, ok \in BOOLEAN : AcquireSettle(p, ok)
  \/ \E p \in Procs, ok \in BOOLEAN : Upsert(p, ok)
  \/ \E p \in Procs, i \in TopicIds, ok \in BOOLEAN : TaskAcquire(p, i, ok)
  \/ \E p \in Procs, i \in TopicIds, ok \in BOOLEAN : TaskDelete(p, i, ok)
  \/ \E p \in Procs, i \in TopicIds, ok \in BOOLEAN : TaskInsert(p, i, ok)
  \/ \E p \in Procs, ok \in BOOLEAN : Commit(p, ok)
  \/ \E p \in Procs, ok \in BOOLEAN : Rollback(p, ok)
  \/ \E p \in Procs : BackoffEnd(p)
  \/ \E p \in Procs : Release(p)
  \/ handleError
  \/ WriterAdvance

RefreshSpec == RefreshInit /\ [][RefreshNext]_vars

\* parseEcosystemFile on every file of at most MaxLines lines, and on a
\* file that is missing
ReaderInit ==
  /\ now = 0
  /\ LimStart(getDefaultState(now), HOUR)
  /\ WriterStart(<<>>)
  /\ script = <<>> /\ ip = 1
  /\ ClientIdle /\ RunIdle /\ SaveIdle
  /\ dbq = NoDbq /\ calc = NoCalc
  /\ \/ \E f \in SourceFiles : ReaderStart(TRUE, f)
     \/ ReaderStart(FALSE, <<>>)

ReaderNext == ReadLine \/ ParseReturn \/ ParseFail

ReaderSpec == ReaderInit /\ [][ReaderNext]_vars

\* calculateDelay on every usage level, for every last request time and
\* every pair of later call times
DelayInit ==
  /\ now = 0
  /\ LimStart(getDefaultState(now), HOUR)
  /\ WriterStart(<<>>)
  /\ script = <<>> /\ ip = 1
  /\ ClientIdle /\ RunIdle /\ SaveIdle
  /\ reader = NoReader /\ dbq = NoDbq
  /\ \E tot \in UsageTotals, l \in CallTimes, t1 \in CallTimes, t2 \in CallTimes :
       l <= t1 /\ t1 <= t2 /\ CalcStart(tot, l, t1, t2)

DelayNext == CalcFirst \/ CalcSecond

DelaySpec == DelayInit /\ [][DelayNext]_vars

\* the database queue under any sequence of add calls and completions
DbInit ==
  /\ now = 0
  /\ LimStart(getDefaultState(now), HOUR)
  /\ WriterStart(<<>>)
  /\ script = <<>> /\ ip = 1
  /\ ClientIdle /\ RunIdle /\ SaveIdle /\ ToolsIdle

DbNext ==
  \/ \E nest \in BOOLEAN : DbAdd(nest)
  \/ \E ok \in BOOLEAN : OpSettle(ok)
  \/ OpFinally

DbSpec == DbInit /\ [][DbNext]_vars

\* the same with operations that settle and finally callbacks that run:
\* the event loop runs every callback that is due
DbLiveSpec ==
  /\ DbInit /\ [][DbNext]_vars
  /\ WF_vars(\E ok \in BOOLEAN : OpSettle(ok))
  /\ WF_vars(OpFinally)

\* an ingestion run over any list of URLs
ImportInit ==
  /\ now = 0
  /\ LimStart(getDefaultState(now), HOUR)
  /\ WriterStart(<<>>)
  /\ script = <<>> /\ ip = 1
  /\ ClientIdle /\ SaveIdle /\ ToolsIdle
  /\ \E urls \in UrlLists : RunStart(urls)

ImportNext ==
  \/ \E ok \in BOOLEAN : RunInitialize(ok)
  \/ GroupStart
  \/ \E k \in Workers, out \in RepoOutcomes : FetchSettle(k, out)
  \/ \E k \in Workers, ok \in BOOLEAN : QueueSettle(k, ok)
  \/ GroupEnd
  \/ \E ok \in BOOLEAN : FlushSettle(ok)
  \/ LoopEnd
  \/ \E ok \in BOOLEAN : FinalFlushSettle(ok)

ImportSpec == ImportInit /\ [][ImportNext]_vars

\* saveState and crashes, from a valid state file
SaveInit ==
  /\ now = 0
  /\ \E f \in InitFiles \ {CorruptFile} :
       /\ LimStart(f, HOUR)
       /\ backupFile = <<>>
       /\ save = [NoSave EXCEPT !.last = f]
  /\ WriterStart(<<>>)
  /\ script = <<>> /\ ip = 1
  /\ ClientIdle /\ RunIdle /\ ToolsIdle

SaveNext ==
  \/ \E rem \in RemainingVals, rs \in ResetVals : SaveBegin(updateLimits(stateFile, rem, rs))
  \/ SaveBegin([loadState(stateFile, now) EXCEPT !.total = @ + 1, !.lastReq = now])
  \/ SaveWriteOpen
  \/ \E ok \in BOOLEAN : SaveWriteEnd(ok)
  \/ SaveUnlink
  \/ Crash
  \/ Restart

SaveSpec == SaveInit /\ [][SaveNext]_vars

\* ---------------------------------------------------------------------
\* Properties of the writer
\* ---------------------------------------------------------------------
InProgress(p) ==
  proc[p].pc \in {"connect", "acquire", "upsert", "topics", "commit", "rollback"}
Returned(p) == proc[p].pc = "returned"
TopicsOf(i) == {row.topic : row \in {x \in repository_topics : x.id = i}}
\* the store holds r: one row with its id and its scalar values and, when
\* it has topics, exactly its topics
Stored(r) ==
  /\ \E row \in repositories : row.id = r.id /\ row.upd = r.ver
  /\ Cardinality({row \in repositories : row.id = r.id}) = 1
  /\ r.topics # {} => TopicsOf(r.id) = r.topics
ScriptOver == ip > Len(script) /\ \A p \in Procs : proc[p].pc = "free"

BatchAtomicity ==
  \A a \in DOMAIN attempts :
    (attempts[a].result = "failed" /\ attempts[a].why = "write") =>
      /\ \A row \in repositories \cup repository_topics : row.att # a
      /\ a = Len(attempts) => Range(attempts[a].snap) \subseteq Range(batch)

\* C38 (a flush depends on limiter admissions): once the limiter has
\* rejected an admission of a batch, for the batch or for one of its
\* records with topics, no row of the store was written by that batch and,
\* while no later snapshot has been taken, all its records are pending again
AdmissionDependence ==
  \A a \in DOMAIN attempts :
    (attempts[a].result = "failed" /\ attempts[a].why = "limiter") =>
      /\ \A row \in repositories \cup repository_topics : row.att # a
      /\ a = Len(attempts) => Range(attempts[a].snap) \subseteq Range(batch)

\* C6 (no loss): a record that queueRepository pushed is pending, or in
\* the snapshot of a flush in progress, or in a committed snapshot
NoLoss ==
  \A r \in accepted :
    \/ r \in Range(batch)
    \/ \E p \in Procs : InProgress(p) /\ r \in Range(proc[p].cur)
    \/ \E a \in DOMAIN attempts :
         attempts[a].result = "committed" /\ r \in Range(attempts[a].snap)

\* C30 (the writer never wedges): the processing flag is true only while
\* a processBatch invocation is between taking its snapshot and its finally
\* block; once every flush attempt has ended the flag is false again
NeverWedged ==
  svcProcessing => \E p \in Procs : InProgress(p) \/ proc[p].pc = "backoff"

\* C31 (no duplicate identifier in a batch): the pending batch never
\* holds two records with the same id
NoDuplicateInBatch ==
  \A i, j \in DOMAIN batch : i # j => batch[i].id # batch[j].id

\* the full names that committed snapshots hold
CommittedNames ==
  {r.full_name : r \in UNION {Range(attempts[a].snap) :
                                a \in {x \in DOMAIN attempts : attempts[x].result = "committed"}}}
\* C36 (processedRepos holds exactly the written names): with nothing
\* loaded by initialize, a name is in processedRepos if and only if a
\* committed snapshot holds it, and the name of a pending record is not in
\* the set
ProcessedExact ==
  /\ processedRepos = CommittedNames
  /\ \A i \in DOMAIN batch : batch[i].full_name \notin processedRepos

\* C9 (single flush at a time): at most one processBatch invocation is
\* between taking its snapshot and the end of its transaction
SingleFlush == Cardinality({p \in Procs : InProgress(p)}) <= 1

\* the records of ScriptOverflow, in the order of the calls
OverflowRecs == [i \in 1..(BATCH_SIZE + 1) |-> ScriptOverflow[i].rec]
Automatic == {a \in DOMAIN attempts : attempts[a].kind # "flush"}

\* C10 (size-triggered flush): while nothing fails, a caller that enqueues
\* BATCH_SIZE + 1 distinct new records one after the other and then calls
\* flush() sees no flush before the BATCH_SIZE-th record is appended; from
\* then on exactly one automatic flush, whose snapshot is the first
\* BATCH_SIZE records; once it has returned they are in the store and the
\* next record is the only one pending; once flush() has returned that
\* record is in the store too.
SizeTriggeredFlush ==
  (script = ScriptOverflow /\ faults = 0) =>
    /\ ip <= BATCH_SIZE => (attempts = <<>> /\ batch = SubSeq(OverflowRecs, 1, ip - 1))
    /\ ip > BATCH_SIZE =>
         /\ Automatic = {1}
         /\ attempts[1].kind = "enqueue"
         /\ attempts[1].snap = SubSeq(OverflowRecs, 1, BATCH_SIZE)
    /\ ip > BATCH_SIZE + 1 =>
         /\ \A i \in 1..BATCH_SIZE : Stored(OverflowRecs[i])
         /\ ip = BATCH_SIZE + 2 => batch = <<OverflowRecs[BATCH_SIZE + 1]>>
    /\ ScriptOver =>
         /\ Len(attempts) = 2 /\ attempts[2].kind = "flush"
         /\ batch = <<>>
         /\ \A i \in 1..(BATCH_SIZE + 1) : Stored(OverflowRecs[i])

\* the caller of ScriptOverflow is through, nothing failed, and the last
\* record is in the store
SizeTriggeredFlushWitness ==
  /\ script = ScriptOverflow /\ faults = 0 /\ ScriptOver
  /\ Stored(OverflowRecs[BATCH_SIZE + 1])

\* C7 as claimed (idempotent upsert): after enqueue, flush, enqueue of the
\* same id with other values, flush, with no failure, the store has one row
\* for the id, with the scalar values and the topics of the second write
IdempotentUpsert ==
  (script = ScriptTwice /\ faults = 0 /\ ScriptOver) => Stored(ScriptTwice[3].rec)

\* C7 amended: once the first flush has committed, the second enqueue is
\* skipped: when the caller is through the store has one row for the id,
\* with the scalar values and the topics of the first write
FirstWriteKept ==
  (script = ScriptTwice /\ ScriptOver /\ attempts # <<>>
     /\ attempts[1].result = "committed") =>
    /\ Stored(ScriptTwice[1].rec)
    /\ Len(attempts) = 1

\* the caller of ScriptTwice is through and its first flush has committed
FirstWriteKeptWitness ==
  /\ script = ScriptTwice /\ ScriptOver
  /\ attempts # <<>> /\ attempts[1].result = "committed"

\* C22 (last write wins on scalar columns): a row written last by a
\* committed transaction holds the values of that transaction's record in
\* the columns of the SET list (upd) and in the columns outside it (fix:
\* fork, owner_html_url, pushed_at, license_name, languages_url, and also
\* full_name and created_at)
LastWriteWins ==
  \A row \in repositories :
    (row.att \in DOMAIN attempts /\ attempts[row.att].result = "committed") =>
      \A r \in Range(attempts[row.att].snap) :
        r.id = row.id => (row.upd = r.ver /\ row.fix = r.ver)

\* C23 (dependent rows are replaced): when the caller is through and the
\* last transaction has committed, the topic rows of each record of its
\* snapshot are exactly the topics of that record
TopicsReplaced ==
  (ScriptOver /\ attempts # <<>> /\ attempts[Len(attempts)].result = "committed") =>
    \A r \in Range(attempts[Len(attempts)].snap) : TopicsOf(r.id) = r.topics

\* ---------------------------------------------------------------------
\* Properties of calculateDelay
\* ---------------------------------------------------------------------

\* C39 (the adaptive delay accounts for elapsed time): with a fixed usage
\* ratio a later call never gets a longer delay than an earlier one, and
\* for some usage, last request time and pair of call times the later
\* call gets a strictly shorter delay
DelayAccountsForElapsed ==
  /\ calc.pc = "done" => calc.d2 <= calc.d1
  /\ \E tot \in UsageTotals, l \in CallTimes, t1 \in CallTimes, t2 \in CallTimes :
       /\ l <= t1 /\ t1 < t2
       /\ LET st == [getDefaultState(0) EXCEPT !.total = tot, !.lastReq = l]
          IN  calculateDelay(st, t2) < calculateDelay(st, t1)

\* ---------------------------------------------------------------------
\* Properties of the fetch clients
\* ---------------------------------------------------------------------
FetchDone(f) == fetch[f].pc = "done"
Fresh(f) == fetch[f].age >= 0 /\ fetch[f].age < CACHE_TTL

\* C11 as claimed (cache TTL): a fetch whose cache entry is younger than
\* 24h makes no network call and no acquire call; a fetch whose cache entry
\* is older than 24h has made a network call when it ends
CacheTTL ==
  \A f \in Fids :
    /\ Fresh(f) => (fetch[f].net = 0 /\ fetch[f].asked = 0)
    /\ (FetchDone(f) /\ fetch[f].age > CACHE_TTL) => fetch[f].net >= 1

\* C11 amended: a fetch whose cache entry is younger than 24h and parses
\* makes no network call and no acquire call, and fetchRepository with
\* GITHUB_TOKEN set and fetchRepositoryContributors return the cached data;
\* a fetch whose cache entry is 24h old or older, or does not parse, has
\* asked the limiter when it ends (fetchRepository: with GITHUB_TOKEN set)
\* and has made a network call if its first acquire call was granted
CacheTTLReadable ==
  \A f \in Fids :
    LET tok == fetch[f].kind = "contrib" \/ token
    IN  /\ (Fresh(f) /\ fetch[f].good) =>
              /\ fetch[f].net = 0 /\ fetch[f].asked = 0
              /\ (FetchDone(f) /\ tok) => fetch[f].out = "cached"
        /\ (FetchDone(f) /\ tok /\ (fetch[f].age >= CACHE_TTL \/ ~fetch[f].good)) =>
              /\ fetch[f].asked >= 1
              /\ fetch[f].adm >= 1 => fetch[f].net >= 1

\* a fetch has returned the entry that an earlier fetch of the run wrote
CacheTTLWitness ==
  \E f \in Fids :
    /\ FetchDone(f) /\ fetch[f].out = "cached"
    /\ fcalls = MaxFetchCalls /\ fetch[f].age < CACHE_TTL - 1

\* C12 (not-found handling): once the API has answered not found to a
\* fetch, the fetch is over and has returned null: it neither waits to try
\* again nor counts the answer as a failed attempt
NotFoundIsNull ==
  \A f \in Fids :
    fetch[f].status = "notfound" => (FetchDone(f) /\ fetch[f].out = "null")

\* C13 (the limiter gates every call): a fetch has issued no more network
\* requests than it was granted admissions
AdmissionGate == \A f \in Fids : fetch[f].net <= fetch[f].adm

\* the attempts a fetch may make
Ceiling(f) == IF fetch[f].kind = "repo" THEN CLIENT_MAX_RETRIES ELSE maxRetries
\* CLIENT_RETRY_DELAY * 2^i after the failed attempt i, for i = 0 .. n - 1
Backoffs(n) == [j \in 1..n |-> CLIENT_RETRY_DELAY * Pow2(j - 1)]

\* C20 (bounded retry): a fetch makes at most its ceiling of attempts; one
\* that ends on an API error other than not found and rate limit has made
\* them all, has slept 5000 * 2^i ms after the failed attempt i, and raises
\* the error wrapped with the resource (a GitHubError); a fetch that is over
\* has a record, null or an error
BoundedRetry ==
  \A f \in Fids :
    /\ fetch[f].tries <= Ceiling(f)
    /\ (FetchDone(f) /\ fetch[f].out = "threw" /\ fetch[f].status = "error") =>
         /\ fetch[f].err = "GitHubError"
         /\ fetch[f].tries = Ceiling(f)
         /\ fetch[f].slept = Backoffs(Ceiling(f) - 1)
    /\ FetchDone(f) =>
         \/ fetch[f].out \in {"cached", "record", "null"} /\ fetch[f].err = "none"
         \/ fetch[f].out = "threw" /\ fetch[f].err # "none"

\* C21 (rate-limit exhaustion): a fetch that has made all the attempts of
\* its ceiling and whose API responses were rate-limit responses up to the
\* last one ends by raising a RateLimitError
RateLimitExhaustion ==
  \A f \in Fids :
    (FetchDone(f) /\ fetch[f].out = "threw" /\ fetch[f].status = "ratelimit"
       /\ fetch[f].tries = Ceiling(f)) => fetch[f].err = "RateLimitError"

\* ---------------------------------------------------------------------
\* Properties of the source reader
\* ---------------------------------------------------------------------
\* the line is neither a comment nor blank and matches url = "<value>"
\* with a value that contains the host marker
UrlLine(l) ==
  /\ ~startsWith(trim(l), "#") /\ trim(l) # <<>>
  /\ match(l) # <<>> /\ hasHost(match(l)[1])
RECURSIVE UrlValues(_)
UrlValues(f) ==
  IF f = <<>> THEN <<>>
  ELSE (IF UrlLine(Head(f)) THEN match(Head(f))[1] ELSE <<>>) \o UrlValues(Tail(f))

\* C24 (source reader output): the value returned for a readable file is
\* the sequence, in file order, of the values of its URL lines; the file of
\* the scenario yields https://github.com/foo/bar alone
SourceReaderOutput ==
  (reader.pc = "returned" /\ reader.exists) =>
    /\ reader.out = UrlValues(reader.file)
    /\ reader.file = <<Assign("url", FooBar), <<"#", "sp">> \o Assign("url", BazQux)>>
         => reader.out = <<FooBar>>

\* ---------------------------------------------------------------------
\* Properties of the database queue
\* ---------------------------------------------------------------------
\* C25 (database queue concurrency): at most 5 operations are running at
\* any time; activeOperations counts the running operations and those
\* whose finally callback is still to run, and never exceeds 5
QueueConcurrency ==
  /\ dbq.running <= concurrency
  /\ dbq.activeOperations = dbq.running + dbq.finishing
  /\ dbq.activeOperations <= concurrency

\* 5 operations are running and a further one waits in the queue
QueueConcurrencyWitness ==
  /\ dbq.running = concurrency
  /\ dbq.queue # <<>>

\* C40 (database operation queue progress): the operations are started in
\* the order of their add calls, each once, a waiting operation always has
\* a started operation whose finally callback is still to run, and, when
\* operations settle and callbacks run, every operation given to add is
\* eventually started
QueueProgress ==
  /\ [](/\ \A i \in DOMAIN dbq.started : dbq.started[i] = i
        /\ \A i \in DOMAIN dbq.queue : dbq.queue[i].id = Len(dbq.started) + i
        /\ dbq.queue # <<>> => dbq.activeOperations > 0)
  /\ \A id \in 1..MaxOps :
       [](dbq.adds >= id => <>(Len(dbq.started) >= id))

\* all MaxOps operations have been started although one of them rejected,
\* more of them than can run together
QueueProgressWitness ==
  /\ Len(dbq.started) = MaxOps
  /\ dbq.failures > 0
  /\ MaxOps > concurrency

\* ---------------------------------------------------------------------
\* Properties of the ingestion run
\* ---------------------------------------------------------------------
FailedStatuses == {"invalid_url", "not_found", "error"}
Attempted(u) == run.status[u] # "none"
CountOf(S) == Cardinality({u \in 1..Len(run.urls) : run.status[u] \in S})

\* C19 (per-resource failure isolation): every failure of a URL (invalid
\* URL, not found, exception of the fetch or of the enqueue) is counted in
\* stats.failed and leaves the run going: the run stops early only when
\* initialize or flush throws, never because of a URL; once the loop is
\* over every URL of the list was attempted and settled, and the reported
\* counts are those of the statuses, successful + failed = total
FailureIsolation ==
  /\ run.stats.failed = CountOf(FailedStatuses)
  /\ run.stats.successful = CountOf({"success"})
  /\ run.pc = "aborted" => run.cause \in {"initialize", "flush"}
  /\ run.pc \in {"final", "reported"} =>
       /\ \A u \in 1..Len(run.urls) : Attempted(u) /\ run.status[u] # "pending"
       /\ run.stats.total = Len(run.urls)
       /\ run.stats.successful + run.stats.failed = run.stats.total

\* a reported run of three URLs in which the first URL was invalid, the
\* second failed in its fetch and the third succeeded
FailureIsolationWitness ==
  /\ run.pc = "reported" /\ Len(run.urls) = MaxUrls
  /\ run.status[1] = "invalid_url"
  /\ run.status[2] \in {"not_found", "error"}
  /\ run.status[3] = "success"
  /\ run.stats.failed = 2 /\ run.stats.successful = 1

\* ---------------------------------------------------------------------
\* Properties of queueRepository
\* ---------------------------------------------------------------------

\* C14 (queueRepository does not wait for a flush): no queueRepository
\* call is pending while the processBatch it started waits out the batch
\* interval, runs its transaction or sleeps its backoff
EnqueueNeverWaits ==
  \A p \in Procs :
    proc[p].kind = "enqueue" => ~(Sleeping(p) \/ InProgress(p))

\* C18 (a failed write is not surfaced): a queueRepository call whose flush
\* failed in its transaction returns normally, after the rollback and the
\* re-queueing of the snapshot
EnqueueNeverThrows ==
  \A p \in Procs :
    (/\ proc[p].kind = "enqueue" /\ Returned(p) /\ proc[p].att > 0
     /\ attempts[proc[p].att].result = "failed"
     /\ attempts[proc[p].att].why # "connect") => proc[p].outcome = "failed"
====
